---- MODULE Spec2Model ----
(***************************************************************************)
(* A model of the radicle node service (radicle-node/src/service.rs): the  *)
(* single-threaded event handler that owns the peer sessions, the fetch    *)
(* scheduler and the gossip pipeline.  Every action below is one input     *)
(* handler of `Service`, translated from its code.  The outbox holds the   *)
(* I/O actions emitted by the handler that ran last: the reactor drains    *)
(* the outbox after every input.                                           *)
(***************************************************************************)
EXTENDS Integers, Sequences, FiniteSets, TLC

\* ------------------------------------------------------------------------
\* Universe
\* ------------------------------------------------------------------------

\* The local node id (Service::node_id).
Self == "self"
\* Remote node ids.
Peers == {"A", "B", "C"}
\* Repository ids.
RIDs == {"R1", "R2"}

\* All node ids.
Nodes == Peers \cup {Self}

\* Maximum length of the fetch queue explored.
MaxQueue == 2
\* Number of reply channels handed to Command::Fetch.
MaxChans == 2
\* Connection attempts explored per session.
MaxAttempts == 13

\* limits.fetch_concurrency (default).
FetchConcurrency == 1

\* Nodes listed in config.connect (persistent peers).
ConfigConnect == {"C"}

\* config.relay (default: yes).
ConfigRelay == TRUE

\* MAX_TIME_DELTA, in seconds (60 minutes).
MAX_TIME_DELTA == 3600
\* INITIAL_SUBSCRIBE_BACKLOG_DELTA, in seconds (24 hours).
INITIAL_SUBSCRIBE_BACKLOG_DELTA == 86400
\* MIN_RECONNECTION_DELTA and MAX_RECONNECTION_DELTA, in seconds.
MIN_RECONNECTION_DELTA == 3
MAX_RECONNECTION_DELTA == 3600
\* IDLE_INTERVAL, in seconds.
IDLE_INTERVAL == 30
SYNC_INTERVAL == 60
ANNOUNCE_INTERVAL == 3600
PRUNE_INTERVAL == 1800
STALE_CONNECTION_TIMEOUT == 120
KEEP_ALIVE_DELTA == 60

\* Config::peers: a static peer set, or a dynamic one with this target.
ConfigPeers == "Static"
TARGET_OUTBOUND_PEERS == 8

\* Limits::routing_max_size, routing_max_age and gossip_max_age as
\* configured here.
ConfigRoutingMaxSize == 1
ConfigRoutingMaxAge == 3600
ConfigGossipMaxAge == 7200
\* Timestamp::MAX, as far as the model's timestamps go.
TIMESTAMP_MAX == 1000000

\* The instant the service is constructed at, and for how many seconds
\* the clock moves on from it.
StartTime == 100000
MaxElapsed == 4100

\* Timestamps carried by the announcements of the peers: a past one, the
\* furthest future the start time admits, and one past that.
Timestamps ==
    {StartTime - 100, StartTime + MAX_TIME_DELTA,
     StartTime + MAX_TIME_DELTA + 1}

\* Nodes whose refs the policy follows (Scope::Followed).
Follows == {"A"}

VARIABLES
    sessions,   \* Service::sessions: NodeId -> Session
    fetching,   \* Service::fetching: RepoId -> FetchState
    queue,      \* Service::queue: sequence of <<rid, nid>>
    outbox,     \* I/O actions emitted by the last handler
    emitted,    \* events published by the last handler (Service::emitter)
    routing,    \* routing store: <<rid, nid>> -> timestamp
    gossip,     \* gossip store: <<announcer, variant, rid>> -> announcement
    addresses,  \* address store: known node -> timestamp of its announcement
    seeds,      \* seed store: <<rid, nid>> -> sync status
    policies,   \* seeding policies: repository with policy Allow -> scope
    filter,     \* Service::filter: the local subscription filter
    storage,    \* local storage: repository -> remotes whose refs we hold
    clock,      \* Service::clock
    started,    \* whether Service::initialize has run
    replies,    \* per reply channel, the FetchResults received so far
    nextChan,   \* next unused reply channel
    inflight,   \* fetch actions handed to the workers and not yet reported
    last_idle,  \* Service::last_idle: when the idle task ran last
    last_sync,  \* Service::last_sync
    last_announce, \* Service::last_announce
    last_prune, \* Service::last_prune
    ev          \* the input handled last, with its outcome

vars ==
    <<sessions, fetching, queue, outbox, emitted, routing, gossip, addresses,
      seeds, policies, filter, storage, clock, started, replies, nextChan,
      inflight, last_idle, last_sync, last_announce, last_prune, ev>>

Chans == 1..MaxChans
NoChan == 0

\* Option::None for the optional fields of a session.
None == [none |-> TRUE]

\* ------------------------------------------------------------------------
\* Sessions (service/session.rs)
\* ------------------------------------------------------------------------

\* Session::outbound: a placeholder for a connection we dial.
SessionOutbound(persistent) ==
    [state |-> "Initial", link |-> "Outbound", persistent |-> persistent,
     fetching |-> {}, subscribe |-> None, last_active |-> 0,
     ping |-> "Ok", attempts |-> 0, retry_at |-> 0]

\* Session::inbound: an accepted connection is connected from the start.
SessionInbound(persistent, time) ==
    [state |-> "Connected", link |-> "Inbound", persistent |-> persistent,
     fetching |-> {}, subscribe |-> None, last_active |-> time,
     ping |-> "Ok", attempts |-> 0, retry_at |-> 0]

is_connected(sess) == sess.state = "Connected"

\* The in-flight fetches belong to the Connected state.
is_fetching(sess, rid) == is_connected(sess) /\ rid \in sess.fetching

is_at_capacity(sess) ==
    is_connected(sess) /\ Cardinality(sess.fetching) >= FetchConcurrency

\* Session::fetching: mark the rid as being fetched.
session_fetching(sess, rid) == [sess EXCEPT !.fetching = @ \cup {rid}]

\* Session::fetched: release the slot of the rid.
session_fetched(sess, rid) == [sess EXCEPT !.fetching = @ \ {rid}]

\* Session::to_attempted: the dial was issued; counts an attempt.
to_attempted(sess) ==
    [sess EXCEPT !.state = "Attempted", !.attempts = @ + 1]

\* Session::to_connected: a fresh Connected state, attempts reset.
to_connected(sess, since) ==
    [sess EXCEPT !.state = "Connected", !.fetching = {}, !.ping = "Ok",
                 !.last_active = since, !.attempts = 0]

\* Session::to_disconnected: leaves the Connected state and its fetches.
to_disconnected(sess, since, retry_at) ==
    [sess EXCEPT !.state = "Disconnected", !.fetching = {}, !.ping = "Ok",
                 !.retry_at = retry_at]

\* Session::to_initial.
to_initial(sess) == [sess EXCEPT !.state = "Initial", !.retry_at = 0]

\* Sessions::connected: ids of the sessions in Connected state.
connected(ss) == {n \in DOMAIN ss : is_connected(ss[n])}

\* ------------------------------------------------------------------------
\* Generic helpers
\* ------------------------------------------------------------------------

\* HashMap::insert / HashMap::remove on a function.
MapPut(m, k, v) == [x \in DOMAIN m \cup {k} |-> IF x = k THEN v ELSE m[x]]
MapDel(m, k) == [x \in DOMAIN m \ {k} |-> m[x]]

SeqToSet(q) == {q[i] : i \in 1..Len(q)}

\* ------------------------------------------------------------------------
\* The service state threaded through a handler
\* ------------------------------------------------------------------------

St ==
    [sessions |-> sessions, fetching |-> fetching, queue |-> queue,
     outbox |-> <<>>, emitted |-> <<>>, routing |-> routing,
     gossip |-> gossip, addresses |-> addresses, seeds |-> seeds,
     policies |-> policies, filter |-> filter, storage |-> storage,
     clock |-> clock, replies |-> replies, last_idle |-> last_idle,
     last_sync |-> last_sync, last_announce |-> last_announce,
     last_prune |-> last_prune]

\* The handler leaves the service in state s.
Becomes(s) ==
    /\ sessions' = s.sessions
    /\ fetching' = s.fetching
    /\ queue' = s.queue
    /\ outbox' = s.outbox
    /\ emitted' = s.emitted
    /\ routing' = s.routing
    /\ gossip' = s.gossip
    /\ addresses' = s.addresses
    /\ seeds' = s.seeds
    /\ policies' = s.policies
    /\ filter' = s.filter
    /\ storage' = s.storage
    /\ clock' = s.clock
    /\ replies' = s.replies
    /\ last_idle' = s.last_idle
    /\ last_sync' = s.last_sync
    /\ last_announce' = s.last_announce
    /\ last_prune' = s.last_prune

\* Emitter::emit.
Emit(s, event) == [s EXCEPT !.emitted = Append(@, event)]

\* chan::Sender::send on a reply channel.
Send(s, c, result) == [s EXCEPT !.replies[c] = Append(@, result)]

RECURSIVE SendAll(_, _, _)
SendAll(s, subs, result) ==
    IF subs = <<>> THEN s
    ELSE SendAll(Send(s, Head(subs), result), Tail(subs), result)

\* Outbox::fetch: the session takes the slot, the worker gets the action.
OutboxFetch(s, from, rid, refs_at) ==
    [s EXCEPT !.sessions[from] = session_fetching(@, rid),
              !.outbox = Append(@, [type |-> "Fetch", rid |-> rid,
                                    remote |-> from, refs_at |-> refs_at])]

\* Outbox::disconnect.
OutboxDisconnect(s, nid, reason) ==
    [s EXCEPT !.outbox = Append(@, [type |-> "Disconnect", nid |-> nid,
                                    reason |-> reason])]

\* ------------------------------------------------------------------------
\* Fetch scheduler
\* ------------------------------------------------------------------------

\* policies.namespaces_for: the namespaces come from the scope of the seeding
\* policy; a repository that is not seeded (policy Block) has none.
namespaces_ok(s, rid) == rid \in DOMAIN s.policies

\* Service::try_fetch, from the insert of the FetchState on: the dispatch.
try_fetch_dispatch(s, rid, from, refs_at) ==
    LET s1 == [s EXCEPT !.fetching =
                   MapPut(@, rid, [from |-> from, subscribers |-> <<>>])]
    IN  IF ~namespaces_ok(s1, rid) THEN [s |-> s1, res |-> "Namespaces"]
        ELSE [s |-> OutboxFetch(s1, from, rid, refs_at), res |-> "Ok"]

\* The checks of try_fetch_vacant without the one of the session's capacity.
try_fetch_overcommit(s, rid, from, refs_at) ==
    IF ~is_connected(s.sessions[from])
    THEN [s |-> s, res |-> "SessionNotConnected"]
    ELSE try_fetch_dispatch(s, rid, from, refs_at)

\* Service::try_fetch, when no FetchState exists for rid: the session must
\* be connected and have a free slot, else the fetch is refused or queued.
try_fetch_vacant(s, rid, from, refs_at) ==
    IF ~is_connected(s.sessions[from])
    THEN [s |-> s, res |-> "SessionNotConnected"]
    ELSE IF is_at_capacity(s.sessions[from])
    THEN [s |-> [s EXCEPT !.queue = Append(@, <<rid, from>>)],
          res |-> "SessionCapacityReached"]
    ELSE try_fetch_dispatch(s, rid, from, refs_at)

\* try_fetch without the look at the fetch already in flight.
try_fetch_unguarded(s, rid, from, refs_at) ==
    IF from \notin DOMAIN s.sessions THEN [s |-> s, res |-> "SessionNotFound"]
    ELSE try_fetch_vacant(s, rid, from, refs_at)

\* Service::try_fetch.
try_fetch(s, rid, from, refs_at) ==
    IF from \notin DOMAIN s.sessions THEN [s |-> s, res |-> "SessionNotFound"]
    ELSE IF rid \in DOMAIN s.fetching
    THEN IF s.fetching[rid].from = from THEN [s |-> s, res |-> "Ok"]
         ELSE [s |-> [s EXCEPT !.queue = Append(@, <<rid, from>>)],
               res |-> "Ok"]
    ELSE try_fetch_vacant(s, rid, from, refs_at)

\* Registering a channel without the look at the registered ones.
subscribe_again(subs, c) == Append(subs, c)

\* Vec::push of a reply channel unless the same channel is registered.
subscribe(subs, c) ==
    IF \E i \in 1..Len(subs) : subs[i] = c THEN subs ELSE Append(subs, c)

\* Service::_fetch.
fetch_(s, rid, from, refs_at, channel) ==
    LET r == try_fetch(s, rid, from, refs_at) IN
    IF r.res = "Ok"
    THEN IF channel # NoChan
         THEN [r.s EXCEPT !.fetching[rid].subscribers = subscribe(@, channel)]
         ELSE r.s
    ELSE IF channel # NoChan
         THEN Send(r.s, channel, [kind |-> "Failed", remote |-> from])
         ELSE r.s

\* Service::fetch.
fetch(s, rid, from, channel) == fetch_(s, rid, from, {}, channel)

\* A scheduler that leaves the queue alone.
dequeue_fetch_never(s) == s

\* A scheduler that retries the entry queued last.
dequeue_fetch_last(s) ==
    IF s.queue = <<>> THEN s
    ELSE LET tl == s.queue[Len(s.queue)] IN
         fetch([s EXCEPT !.queue = SubSeq(@, 1, Len(@) - 1)],
               tl[1], tl[2], NoChan)

\* Service::dequeue_fetch.
dequeue_fetch(s) ==
    IF s.queue = <<>> THEN s
    ELSE LET hd == Head(s.queue) IN
         fetch([s EXCEPT !.queue = Tail(@)], hd[1], hd[2], NoChan)

\* ------------------------------------------------------------------------
\* Routing store (radicle/src/node/routing.rs)
\* ------------------------------------------------------------------------

\* A Store::insert that renews an entry of the same timestamp.
routing_insert_one_renews(rt, rid, node, time) ==
    LET k == <<rid, node>>
        existed == k \in DOMAIN rt
        changed == ~existed \/ rt[k] <= time
    IN  [rt |-> IF changed THEN MapPut(rt, k, time) ELSE rt,
         res |-> IF changed /\ existed THEN "TimeUpdated"
                 ELSE IF changed THEN "SeedAdded"
                 ELSE "NotUpdated"]

\* A Store::insert that overwrites whatever timestamp is stored.
routing_insert_one_overwrites(rt, rid, node, time) ==
    LET k == <<rid, node>>
    IN  [rt |-> MapPut(rt, k, time),
         res |-> IF k \in DOMAIN rt THEN "TimeUpdated" ELSE "SeedAdded"]

\* Store::insert for one id: upsert where the stored timestamp is older.
routing_insert_one(rt, rid, node, time) ==
    LET k == <<rid, node>>
        existed == k \in DOMAIN rt
        changed == ~existed \/ rt[k] < time
    IN  [rt |-> IF changed THEN MapPut(rt, k, time) ELSE rt,
         res |-> IF changed /\ existed THEN "TimeUpdated"
                 ELSE IF changed THEN "SeedAdded"
                 ELSE "NotUpdated"]

\* Store::insert: one result per id, in the order given.
RECURSIVE routing_insert(_, _, _, _)
routing_insert(rt, ids, node, time) ==
    IF ids = <<>> THEN [rt |-> rt, results |-> <<>>]
    ELSE LET one == routing_insert_one(rt, Head(ids), node, time)
             rest == routing_insert(one.rt, Tail(ids), node, time)
         IN  [rt |-> rest.rt,
              results |-> <<<<Head(ids), one.res>>>> \o rest.results]

\* Store::get_resources.
get_resources(rt, node) == {k[1] : k \in {x \in DOMAIN rt : x[2] = node}}

\* Store::remove.
routing_remove(rt, rid, node) == MapDel(rt, <<rid, node>>)

\* ------------------------------------------------------------------------
\* Gossip, address and seed stores
\* ------------------------------------------------------------------------

NoRid == "-"

\* The key of an announcement in the gossip store.
gossip_key(ann) == <<ann.node, ann.kind, ann.rid>>

\* gossip::Store::announced: fresh when strictly newer than the entry held.
gossip_fresh(g, ann) ==
    gossip_key(ann) \notin DOMAIN g \/ g[gossip_key(ann)].ts < ann.ts

gossip_announced(g, ann) ==
    IF gossip_fresh(g, ann) THEN MapPut(g, gossip_key(ann), ann) ELSE g

\* Announcement::matches: refs announcements are matched on their rid.
ann_matches(ann, f) == ann.kind # "Refs" \/ ann.rid \in f

\* gossip::Store::filtered: the keys of the history to replay.
gossip_filtered(g, f, since, until) ==
    {k \in DOMAIN g : ann_matches(g[k], f) /\ g[k].ts >= since /\ g[k].ts < until}

\* address::Store::insert: whether the node entry was added or renewed.
address_updated(ab, node, time) == node \notin DOMAIN ab \/ ab[node] < time

address_insert(ab, node, time) ==
    IF address_updated(ab, node, time) THEN MapPut(ab, node, time) ELSE ab

\* seed::Store::synced.
seeds_synced(sd, rid, nid, at, time) ==
    MapPut(sd, <<rid, nid>>, [at |-> at, ts |-> time])

\* policies.is_seeding.
is_seeding(s, rid) == rid \in DOMAIN s.policies

\* Storage::contains.
storage_contains(s, rid) == rid \in DOMAIN s.storage

\* Storage::inventory, in the order the storage lists it.
RECURSIVE SetToSeq(_)
SetToSeq(S) ==
    IF S = {} THEN <<>>
    ELSE LET x == CHOOSE y \in S : TRUE
         IN  <<x>> \o SetToSeq(S \ {x})

storage_inventory(s) == SetToSeq({r \in DOMAIN s.storage : TRUE})

\* ------------------------------------------------------------------------
\* Outbox (service/io.rs)
\* ------------------------------------------------------------------------

\* Outbox::write: one message to one session.
OutboxWrite(s, nid, msg, via) ==
    [s EXCEPT !.outbox = Append(@, [type |-> "Write", nid |-> nid,
                                    msg |-> msg, via |-> via])]

RECURSIVE OutboxWriteEach(_, _, _, _)
OutboxWriteEach(s, nids, msg, via) ==
    IF nids = <<>> THEN s
    ELSE OutboxWriteEach(OutboxWrite(s, Head(nids), msg, via),
                         Tail(nids), msg, via)

\* Outbox::broadcast: the message to each of the given sessions.
OutboxBroadcast(s, msg, nids, via) ==
    OutboxWriteEach(s, SetToSeq(nids), msg, via)

\* Outbox::wakeup.
OutboxWakeup(s, delay) ==
    [s EXCEPT !.outbox = Append(@, [type |-> "Wakeup", delay |-> delay])]

\* Outbox::connect.
OutboxConnect(s, nid) ==
    [s EXCEPT !.outbox = Append(@, [type |-> "Connect", nid |-> nid])]

AnnMsg(ann) == [type |-> "Announcement", ann |-> ann]

\* The sessions among nids whose subscription matches the announcement.
relay_targets(s, ann, nids) ==
    IF ann.kind = "Refs"
    THEN {n \in nids : /\ s.sessions[n].subscribe # None
                       /\ ann.rid \in s.sessions[n].subscribe.filter}
    ELSE nids

\* Outbox::relay.
OutboxRelay(s, ann, nids) ==
    OutboxBroadcast(s, AnnMsg(ann), relay_targets(s, ann, nids), "relay")

\* Outbox::announce: our own announcement is kept in the gossip store and
\* written to the given sessions.
OutboxAnnounce(s, ann, nids) ==
    OutboxBroadcast([s EXCEPT !.gossip = gossip_announced(@, ann)],
                    AnnMsg(ann), nids, "announce")

\* ------------------------------------------------------------------------
\* Routing and announcements of the local node
\* ------------------------------------------------------------------------

\* The ids of the results with the given outcome, in order.
RECURSIVE with_result(_, _)
with_result(results, res) ==
    IF results = <<>> THEN <<>>
    ELSE IF Head(results)[2] = res
         THEN <<Head(results)[1]>> \o with_result(Tail(results), res)
         ELSE with_result(Tail(results), res)

RECURSIVE emit_each(_, _, _, _)
emit_each(s, type, rids, nid) ==
    IF rids = <<>> THEN s
    ELSE emit_each(Emit(s, [type |-> type, rid |-> Head(rids), nid |-> nid]),
                   type, Tail(rids), nid)

RECURSIVE remove_each(_, _, _)
remove_each(rt, rids, node) ==
    IF rids = <<>> THEN rt
    ELSE remove_each(routing_remove(rt, Head(rids), node), Tail(rids), node)

\* Service::sync_routing: insert the inventory, drop what it leaves out.
sync_routing(s, inventory, from, timestamp) ==
    LET ins == routing_insert(s.routing, inventory, from, timestamp)
        added == with_result(ins.results, "SeedAdded")
        updated == with_result(ins.results, "TimeUpdated")
        removed == SetToSeq(get_resources(ins.rt, from) \ SeqToSet(inventory))
        s1 == emit_each([s EXCEPT !.routing = ins.rt],
                        "SeedDiscovered", added, from)
        s2 == emit_each([s1 EXCEPT !.routing = remove_each(@, removed, from)],
                        "SeedDropped", removed, from)
    IN  [s |-> s2, added |-> added, removed |-> removed, updated |-> updated]

\* SyncedRouting::is_empty.
synced_is_empty(r) == r.added = <<>> /\ r.removed = <<>> /\ r.updated = <<>>

\* An announcement as the model carries it.
Ann(node, kind, ts, valid, seed, inventory, rid, refs) ==
    [node |-> node, kind |-> kind, ts |-> ts, valid |-> valid, seed |-> seed,
     inventory |-> inventory, rid |-> rid, refs |-> refs]

\* Service::announce_inventory.
announce_inventory(s, inventory) ==
    OutboxAnnounce(s, Ann(Self, "Inventory", s.clock, TRUE, TRUE, inventory,
                          NoRid, {}),
                   connected(s.sessions))

\* Service::sync_inventory.
sync_inventory(s) == sync_routing(s, storage_inventory(s), Self, s.clock)

\* Service::sync_and_announce: announce only when the inventory changed.
sync_and_announce(s) ==
    LET synced == sync_inventory(s) IN
    IF Len(synced.added) + Len(synced.removed) > 0
    THEN announce_inventory(synced.s, storage_inventory(synced.s))
    ELSE synced.s

\* Service::announce_refs: fails when the repository or one of the remotes
\* is missing from storage (storage.repository, RefsAt::new).
announce_refs_ok(s, rid, remotes) ==
    storage_contains(s, rid) /\ remotes \subseteq s.storage[rid]

announce_refs(s, rid, remotes) ==
    IF ~announce_refs_ok(s, rid, remotes) THEN s
    ELSE LET ann == Ann(Self, "Refs", s.clock, TRUE, TRUE, <<>>, rid, remotes)
             s1 == IF Self \in remotes
                   THEN [s EXCEPT !.seeds =
                            seeds_synced(@, rid, Self, "X", s.clock)]
                   ELSE s
         IN  OutboxAnnounce(s1, ann, connected(s1.sessions))

\* ------------------------------------------------------------------------
\* Fetch completion and session events
\* ------------------------------------------------------------------------

\* node::FetchResult as delivered on a reply channel.
FetchSuccess(rid, remote) == [kind |-> "Success", remote |-> remote]
FetchFailed(rid, remote, reason) == [kind |-> "Failed", remote |-> remote]

\* A Service::fetched that disconnects the remote for every error.
fetched_result_strict(s, rid, remote, result) ==
    IF result.ok
    THEN Emit(s, [type |-> "RefsFetched", rid |-> rid, nid |-> remote])
    ELSE OutboxDisconnect(s, remote, <<"Fetch", "Timeout">>)

\* Service::fetched, up to the lookup of the FetchState.
fetched_result(s, rid, remote, result) ==
    IF result.ok
    THEN Emit(s, [type |-> "RefsFetched", rid |-> rid, nid |-> remote])
    ELSE IF result.timeout
         THEN OutboxDisconnect(s, remote, <<"Fetch", "Timeout">>)
         ELSE s

\* A Service::fetched that announces the refs of every fetch that
\* updated some, asked for or not.
fetched_announce_asked(s, rid, subscribers, result) ==
    IF result.ok /\ result.updated
    THEN announce_refs(s, rid, result.namespaces)
    ELSE s

\* Service::fetched: announce the refs of a fetch nobody asked for.
fetched_announce(s, rid, subscribers, result) ==
    IF subscribers = <<>> /\ result.ok /\ result.updated
    THEN announce_refs(s, rid, result.namespaces)
    ELSE s

\* A Service::fetched that tries the queue even when it finds no
\* FetchState.
fetched_pops(s, rid, remote, result) ==
    LET s0 == fetched_result(s, rid, remote, result) IN
    IF rid \notin DOMAIN s0.fetching THEN dequeue_fetch(s0)
    ELSE LET fs == s0.fetching[rid]
             s1 == [s0 EXCEPT !.fetching = MapDel(@, rid)]
             s2 == IF remote \in DOMAIN s1.sessions
                   THEN [s1 EXCEPT !.sessions[remote] = session_fetched(@, rid)]
                   ELSE s1
             res == IF result.ok THEN FetchSuccess(rid, remote)
                    ELSE FetchFailed(rid, remote, "fetch")
             s3 == SendAll(s2, fs.subscribers, res)
             s4 == fetched_announce(s3, rid, fs.subscribers, result)
         IN  dequeue_fetch(sync_and_announce(s4))

\* Service::fetched.  The FetchState is removed whatever its `from`: the
\* debug_assert_eq!(fetching.from, remote) that follows is compiled out of
\* release builds, and this is the release build.
fetched(s, rid, remote, result) ==
    LET s0 == fetched_result(s, rid, remote, result) IN
    IF rid \notin DOMAIN s0.fetching THEN s0
    ELSE LET fs == s0.fetching[rid]
             s1 == [s0 EXCEPT !.fetching = MapDel(@, rid)]
             s2 == IF remote \in DOMAIN s1.sessions
                   THEN [s1 EXCEPT !.sessions[remote] = session_fetched(@, rid)]
                   ELSE s1
             res == IF result.ok THEN FetchSuccess(rid, remote)
                    ELSE FetchFailed(rid, remote, "fetch")
             s3 == SendAll(s2, fs.subscribers, res)
             s4 == fetched_announce(s3, rid, fs.subscribers, result)
         IN  dequeue_fetch(sync_and_announce(s4))

RECURSIVE Pow2(_)
Pow2(n) == IF n = 0 THEN 1 ELSE 2 * Pow2(n - 1)

Clamp(x, lo, hi) == IF x < lo THEN lo ELSE IF x > hi THEN hi ELSE x

\* A delay that doubles with every attempt, without floor or ceiling.
reconnect_delay_unclamped(attempts) == Pow2(attempts)

\* The delay before a persistent peer is dialled again.
reconnect_delay(attempts) ==
    Clamp(Pow2(attempts), MIN_RECONNECTION_DELTA, MAX_RECONNECTION_DELTA)

\* Config::peer / Config::is_persistent.
is_persistent(nid) == nid \in ConfigConnect

\* Service::connect.
connect(s, nid) ==
    IF nid \in DOMAIN s.sessions \/ nid = Self THEN s
    ELSE OutboxConnect(
           [s EXCEPT !.sessions =
               MapPut(@, nid, SessionOutbound(is_persistent(nid)))],
           nid)

RECURSIVE connect_each(_, _)
connect_each(s, nids) ==
    IF nids = <<>> THEN s
    ELSE connect_each(connect(s, Head(nids)), Tail(nids))

\* Service::available_peers: the known nodes we have no session with.
available_peers(s) ==
    SetToSeq((DOMAIN s.addresses \ DOMAIN s.sessions) \ {Self})

\* The outbound sessions that are connected or being connected.
outbound_sessions(s) ==
    {n \in DOMAIN s.sessions :
        /\ s.sessions[n].link = "Outbound"
        /\ s.sessions[n].state \in {"Connected", "Initial", "Attempted"}}

\* Iterator::take.
Take(q, n) == SubSeq(q, 1, IF n < Len(q) THEN n ELSE Len(q))

\* Service::maintain_connections: nothing to do for a static peer set.
maintain_connections(s) ==
    IF ConfigPeers = "Static" THEN s
    ELSE IF TARGET_OUTBOUND_PEERS <= Cardinality(outbound_sessions(s)) THEN s
    ELSE connect_each(s,
            Take(available_peers(s),
                 TARGET_OUTBOUND_PEERS - Cardinality(outbound_sessions(s))))

\* Service::disconnected: fail and remove the fetches from the remote.
RECURSIVE fail_fetches(_, _, _)
fail_fetches(s, rids, remote) ==
    IF rids = <<>> THEN s
    ELSE LET rid == Head(rids)
             s1 == SendAll(s, s.fetching[rid].subscribers,
                           FetchFailed(rid, remote, "disconnected"))
         IN  fail_fetches([s1 EXCEPT !.fetching = MapDel(@, rid)],
                          Tail(rids), remote)

\* Every fetch counted as one from the remote.
fetches_from_any(s, remote) == DOMAIN s.fetching

\* The fetches running from the remote.
fetches_from(s, remote) ==
    {rid \in DOMAIN s.fetching : s.fetching[rid].from = remote}

\* A Service::disconnected that keeps the session of every peer.
disconnected_keeps(s, remote) ==
    LET s0 == Emit(s, [type |-> "PeerDisconnected", rid |-> NoRid,
                       nid |-> remote])
    IN
    IF remote \notin DOMAIN s0.sessions THEN s0
    ELSE LET s1 == fail_fetches(s0, SetToSeq(fetches_from(s0, remote)), remote)
             delay == reconnect_delay(s1.sessions[remote].attempts)
         IN  dequeue_fetch(
               OutboxWakeup(
                 [s1 EXCEPT !.sessions[remote] =
                     to_disconnected(@, s1.clock, s1.clock + delay)],
                 delay))

\* Service::disconnected.
disconnected(s, remote) ==
    LET s0 == Emit(s, [type |-> "PeerDisconnected", rid |-> NoRid,
                       nid |-> remote])
    IN
    IF remote \notin DOMAIN s0.sessions THEN s0
    ELSE LET s1 == fail_fetches(s0, SetToSeq(fetches_from(s0, remote)), remote)
             delay == reconnect_delay(s1.sessions[remote].attempts)
             s2 == IF is_persistent(remote)
                   THEN OutboxWakeup(
                          [s1 EXCEPT !.sessions[remote] =
                              to_disconnected(@, s1.clock, s1.clock + delay)],
                          delay)
                   ELSE IF s1.sessions[remote].link = "Outbound"
                   THEN maintain_connections(
                          [s1 EXCEPT !.sessions = MapDel(@, remote)])
                   ELSE [s1 EXCEPT !.sessions = MapDel(@, remote)]
         IN  dequeue_fetch(s2)

\* gossip::Store::last: the newest timestamp held.
gossip_last(g) ==
    CHOOSE m \in {g[k].ts : k \in DOMAIN g} :
        \A k \in DOMAIN g : g[k].ts <= m

\* Service::filter: the default policy is Block, so the filter is ours.
service_filter(s) == s.filter

SubscribeMsg(f, since, until) ==
    [type |-> "Subscribe", filter |-> f, since |-> since, until |-> until]

\* The cached announcement of the local node.
LocalNodeAnn == Ann(Self, "Node", StartTime, TRUE, TRUE, <<>>, NoRid, {})

\* Timestamp is an unsigned integer; the timestamps of the model end at
\* TIMESTAMP_MAX.
TimestampModulus == TIMESTAMP_MAX + 1

\* A build with overflow checks panics on a subtraction below zero, a
\* build without them wraps around.
Builds == {"checked", "wrapping"}

\* a - b on Timestamp.
timestamp_sub(a, b, build) ==
    [panic |-> a < b /\ build = "checked",
     value |-> (a - b) % TimestampModulus]

\* Service::initial, the start of the subscription: an hour before the
\* newest announcement held, or a day before now when none is held.
initial_since(g, now, build) ==
    IF DOMAIN g # {}
    THEN timestamp_sub(gossip_last(g), MAX_TIME_DELTA, build)
    ELSE [panic |-> FALSE, value |-> now - INITIAL_SUBSCRIBE_BACKLOG_DELTA]

\* Service::initial.
initial(s, build) ==
    LET since == initial_since(s.gossip, s.clock, build)
    IN  [panic |-> since.panic,
         msgs |->
           IF since.panic THEN <<>>
           ELSE << AnnMsg(LocalNodeAnn),
                   AnnMsg(Ann(Self, "Inventory", s.clock, TRUE, TRUE,
                              storage_inventory(s), NoRid, {})),
                   SubscribeMsg(service_filter(s), since.value,
                                TIMESTAMP_MAX) >>]

\* Outbox::write_all.
RECURSIVE OutboxWriteAll(_, _, _)
OutboxWriteAll(s, nid, msgs) ==
    IF msgs = <<>> THEN s
    ELSE OutboxWriteAll(OutboxWrite(s, nid, Head(msgs), "write"),
                        nid, Tail(msgs))

\* A Service::connected that opens a new session for every inbound
\* connection.
on_connected_anew(s, remote, link, build) ==
    LET s0 == Emit(s, [type |-> "PeerConnected", rid |-> NoRid, nid |-> remote])
        msgs == initial(s0, build)
    IN
    IF msgs.panic THEN s0
    ELSE IF link = "Outbound"
    THEN IF remote \in DOMAIN s0.sessions
         THEN OutboxWriteAll(
                [s0 EXCEPT !.sessions[remote] = to_connected(@, s0.clock)],
                remote, msgs.msgs)
         ELSE s0
    ELSE OutboxWriteAll(
           [s0 EXCEPT !.sessions =
               MapPut(@, remote,
                      SessionInbound(is_persistent(remote), s0.clock))],
           remote, msgs.msgs)

\* Service::connected.  A panic in Service::initial ends the handler after
\* the event was emitted.
on_connected(s, remote, link, build) ==
    LET s0 == Emit(s, [type |-> "PeerConnected", rid |-> NoRid, nid |-> remote])
        msgs == initial(s0, build)
    IN
    IF msgs.panic THEN s0
    ELSE IF link = "Outbound"
    THEN IF remote \in DOMAIN s0.sessions
         THEN OutboxWriteAll(
                [s0 EXCEPT !.sessions[remote] = to_connected(@, s0.clock)],
                remote, msgs.msgs)
         ELSE s0
    ELSE IF remote \in DOMAIN s0.sessions
         THEN s0
         ELSE OutboxWriteAll(
                [s0 EXCEPT !.sessions =
                    MapPut(@, remote,
                           SessionInbound(is_persistent(remote), s0.clock))],
                remote, msgs.msgs)

\* Service::attempted.
on_attempted(s, nid) ==
    IF nid \in DOMAIN s.sessions
    THEN [s EXCEPT !.sessions[nid] = to_attempted(@)]
    ELSE s

\* ------------------------------------------------------------------------
\* Gossip: accepting announcements
\* ------------------------------------------------------------------------

\* RefsAnnouncement::refs_status: the announced remotes we lack are fresh.
refs_fresh(s, ann) ==
    {r \in ann.refs : ~storage_contains(s, ann.rid) \/ r \notin s.storage[ann.rid]}

refs_stale(s, ann) == ann.refs \ refs_fresh(s, ann)

\* Service::refs_status_of: under Scope::Followed only the followed remotes,
\* except ourselves, stay fresh.
refs_status_of(s, ann, scope) ==
    IF refs_fresh(s, ann) = {} \/ scope = "All"
    THEN refs_fresh(s, ann)
    ELSE {r \in refs_fresh(s, ann) : r \in Follows \ {Self}}

\* handle_announcement, inventory: the loop over the announced ids.
RECURSIVE inventory_each(_, _, _)
inventory_each(s, ids, announcer) ==
    IF ids = <<>> THEN s
    ELSE LET id == Head(ids)
             s1 == IF s.sessions[announcer].subscribe # None
                   THEN [s EXCEPT !.sessions[announcer].subscribe.filter =
                            @ \cup {id}]
                   ELSE s
             s2 == IF is_seeding(s1, id) /\ ~storage_contains(s1, id)
                   THEN fetch(s1, id, announcer, NoChan)
                   ELSE s1
         IN  inventory_each(s2, Tail(ids), announcer)

\* An InventoryAnnouncement arm that relays what changed no route.
handle_inventory_relays(s, ann) ==
    LET s0 == Emit(s, [type |-> "InventoryAnnounced", rid |-> NoRid,
                       nid |-> ann.node])
        synced == sync_routing(s0, ann.inventory, ann.node, ann.ts)
    IN  [s |-> IF ~synced_is_empty(synced)
                  /\ ann.node \in DOMAIN synced.s.sessions
               THEN inventory_each(synced.s, ann.inventory, ann.node)
               ELSE synced.s,
         res |-> IF ConfigRelay THEN "Relay" ELSE "NoRelay"]

\* handle_announcement, InventoryAnnouncement arm.
handle_inventory(s, ann) ==
    LET s0 == Emit(s, [type |-> "InventoryAnnounced", rid |-> NoRid,
                       nid |-> ann.node])
        synced == sync_routing(s0, ann.inventory, ann.node, ann.ts)
    IN  IF synced_is_empty(synced)
        THEN [s |-> synced.s, res |-> "NoRelay"]
        ELSE [s |-> IF ann.node \in DOMAIN synced.s.sessions
                    THEN inventory_each(synced.s, ann.inventory, ann.node)
                    ELSE synced.s,
              res |-> IF ConfigRelay THEN "Relay" ELSE "NoRelay"]

\* handle_announcement, RefsAnnouncement arm: the routing entry.
refs_routing(s, relayer, ann) ==
    LET one == routing_insert_one(s.routing, ann.rid, ann.node, ann.ts)
        s1 == [s EXCEPT !.routing = one.rt]
    IN  IF one.res = "SeedAdded"
        THEN Emit(s1, [type |-> "SeedDiscovered", rid |-> ann.rid,
                       nid |-> relayer])
        ELSE s1

\* A RefsAnnouncement arm that fetches from the relayer.
refs_fetch_relayer(s, relayer, ann, fresh) ==
    IF ann.node \notin DOMAIN s.sessions THEN s
    ELSE LET s1 == IF relayer = ann.node /\ ann.node \in refs_stale(s, ann)
                   THEN OutboxWrite(s, ann.node,
                                    [type |-> "Info", rid |-> ann.rid], "write")
                   ELSE s
         IN  IF fresh # {}
             THEN fetch_(s1, ann.rid, relayer, fresh, NoChan)
             ELSE s1

\* handle_announcement, RefsAnnouncement arm: the fetch from the announcer.
refs_fetch(s, relayer, ann, fresh) ==
    IF ann.node \notin DOMAIN s.sessions THEN s
    ELSE LET s1 == IF relayer = ann.node /\ ann.node \in refs_stale(s, ann)
                   THEN OutboxWrite(s, ann.node,
                                    [type |-> "Info", rid |-> ann.rid], "write")
                   ELSE s
         IN  IF fresh # {}
             THEN fetch_(s1, ann.rid, ann.node, fresh, NoChan)
             ELSE s1

\* handle_announcement, RefsAnnouncement arm.
handle_refs(s, relayer, ann) ==
    LET s0 == Emit(s, [type |-> "RefsAnnounced", rid |-> ann.rid,
                       nid |-> ann.node])
        s1 == refs_routing(s0, relayer, ann)
        s2 == IF Self \in ann.refs
              THEN [s1 EXCEPT !.seeds =
                       seeds_synced(@, ann.rid, ann.node, "X", ann.ts)]
              ELSE s1
        relay == IF ConfigRelay THEN "Relay" ELSE "NoRelay"
    IN  IF ~is_seeding(s2, ann.rid)
        THEN [s |-> s2, res |-> "NoRelay"]
        ELSE LET fresh == refs_status_of(s2, ann, s2.policies[ann.rid])
                 s3 == IF Self \in refs_stale(s2, ann)
                       THEN Emit(s2, [type |-> "RefsSynced", rid |-> ann.rid,
                                      nid |-> ann.node])
                       ELSE s2
             IN  [s |-> refs_fetch(s3, relayer, ann, fresh),
                  res |-> relay]

\* handle_announcement, NodeAnnouncement arm.
handle_node(s, ann) ==
    LET s0 == Emit(s, [type |-> "NodeAnnounced", rid |-> NoRid,
                       nid |-> ann.node])
        relay == IF ConfigRelay THEN "Relay" ELSE "NoRelay"
    IN  IF ~ann.seed THEN [s |-> s0, res |-> relay]
        ELSE IF address_updated(s0.addresses, ann.node, ann.ts)
        THEN [s |-> [s0 EXCEPT !.addresses =
                        address_insert(@, ann.node, ann.ts)],
              res |-> relay]
        ELSE [s |-> s0, res |-> "NoRelay"]

\* Announcement::verify.
verify(ann) == ann.valid

\* A clock check that also refuses the last timestamp allowed.
too_far_ahead_or_at(timestamp, now) ==
    (IF timestamp > now THEN timestamp - now ELSE 0) >= MAX_TIME_DELTA

\* timestamp.saturating_sub(now) > MAX_TIME_DELTA.
too_far_ahead(timestamp, now) ==
    (IF timestamp > now THEN timestamp - now ELSE 0) > MAX_TIME_DELTA

\* The announcer must be known from a node announcement.
announcer_known(s, ann) ==
    ann.kind = "Node" \/ ann.node \in DOMAIN s.addresses

\* handle_announcement, the match on the variant of the message.
handle_variant(s, relayer, ann) ==
    CASE ann.kind = "Inventory" -> handle_inventory(s, ann)
      [] ann.kind = "Refs" -> handle_refs(s, relayer, ann)
      [] OTHER -> handle_node(s, ann)

\* An announcement handled whatever the gossip store holds for its key.
handle_seen(s, relayer, ann) ==
    handle_variant([s EXCEPT !.gossip = gossip_announced(@, ann)], relayer, ann)

\* handle_announcement, from the gossip store on: an announcement that is
\* not newer than the one held is discarded, a fresh one is stored.
handle_unseen(s, relayer, ann) ==
    IF ~gossip_fresh(s.gossip, ann) THEN [s |-> s, res |-> "NoRelay"]
    ELSE handle_variant([s EXCEPT !.gossip = gossip_announced(@, ann)],
                        relayer, ann)

\* An announcement handled whether or not its announcer is known.
handle_unknown(s, relayer, ann) == handle_unseen(s, relayer, ann)

\* handle_announcement, from the look-up of the announcer on.
handle_known(s, relayer, ann) ==
    IF ~announcer_known(s, ann) THEN [s |-> s, res |-> "NoRelay"]
    ELSE handle_unseen(s, relayer, ann)

\* handle_announcement, from the check of our own id on: our own
\* announcements are ignored, those from too far in the future refused.
handle_verified(s, relayer, ann) ==
    IF ann.node = Self THEN [s |-> s, res |-> "NoRelay"]
    ELSE IF too_far_ahead(ann.ts, s.clock)
    THEN [s |-> s, res |-> "InvalidTimestamp"]
    ELSE handle_known(s, relayer, ann)

\* An announcement handled without the check of its signature.
handle_unverified(s, relayer, ann) == handle_verified(s, relayer, ann)

\* Service::handle_announcement.
handle_announcement(s, relayer, ann) ==
    IF ~verify(ann) THEN [s |-> s, res |-> "Misbehavior"]
    ELSE handle_verified(s, relayer, ann)

\* ------------------------------------------------------------------------
\* Messages
\* ------------------------------------------------------------------------

\* handle_message, Subscribe arm: replay the matching history, except the
\* announcements of the remote itself, and keep the subscription.
RECURSIVE replay(_, _, _)
replay(s, keys, remote) ==
    IF keys = <<>> THEN s
    ELSE LET ann == s.gossip[Head(keys)]
             s1 == IF ann.node = remote THEN s
                   ELSE OutboxWrite(s, remote, AnnMsg(ann), "write")
         IN  replay(s1, Tail(keys), remote)

handle_subscribe(s, remote, msg) ==
    LET keys == gossip_filtered(s.gossip, msg.filter, msg.since, msg.until)
        s1 == replay(s, SetToSeq(keys), remote)
    IN  [s1 EXCEPT !.sessions[remote].subscribe =
            [filter |-> msg.filter, since |-> msg.since, until |-> msg.until]]

\* A relay that spares the relayer only.
relay_to_announcer(s, relayer, announcer) ==
    {n \in connected(s.sessions) : n # relayer}

\* The sessions an accepted announcement is relayed to.
relay_to(s, relayer, announcer) ==
    {n \in connected(s.sessions) : n # relayer /\ n # announcer}

\* handle_message, Announcement arm: what follows the answer r of
\* handle_announcement, which is relayed only if it asks for it.
relay_if_asked(r, remote, ann) ==
    IF r.res = "Relay"
    THEN [s |-> OutboxRelay(r.s, ann, relay_to(r.s, remote, ann.node)),
          res |-> "Ok"]
    ELSE IF r.res = "NoRelay"
    THEN [s |-> r.s, res |-> "Ok"]
    ELSE r

\* An announcement relayed whenever its handling raised no error.
handle_announcement_msg_relayed(s, remote, ann) ==
    relay_if_asked(
        [handle_announcement(s, remote, ann) EXCEPT
            !.res = IF @ = "NoRelay" THEN "Relay" ELSE @],
        remote, ann)

\* handle_message, Announcement arm.
handle_announcement_msg(s, remote, ann) ==
    relay_if_asked(handle_announcement(s, remote, ann), remote, ann)

\* handle_message, the arms of the match for a Connected session.
handle_connected(s0, remote, msg) ==
    CASE msg.type = "Announcement" ->
         handle_announcement_msg(s0, remote, msg.ann)
    [] msg.type = "Subscribe" ->
         [s |-> handle_subscribe(s0, remote, msg), res |-> "Ok"]
    [] msg.type = "Info" ->
         [s |-> Emit(s0, [type |-> "RefsSynced", rid |-> msg.rid,
                          nid |-> remote]),
          res |-> "Ok"]
    [] msg.type = "Ping" ->
         [s |-> IF msg.big THEN s0
                ELSE OutboxWrite(s0, remote, [type |-> "Pong"], "write"),
          res |-> "Ok"]
    [] OTHER ->
         [s |-> IF s0.sessions[remote].ping = "Awaiting" /\ msg.matches
                THEN [s0 EXCEPT !.sessions[remote].ping = "Ok"]
                ELSE s0,
          res |-> "Ok"]

\* A handle_message that does not ask the rate limiter.
handle_message_unlimited(s, remote, msg, limited) ==
    IF remote \notin DOMAIN s.sessions THEN [s |-> s, res |-> "Ok"]
    ELSE LET s0 == [s EXCEPT !.sessions[remote].last_active = s.clock] IN
    IF ~is_connected(s0.sessions[remote]) THEN [s |-> s0, res |-> "Ok"]
    ELSE handle_connected(s0, remote, msg)

\* A handle_message that handles the messages of a session in any state.
handle_message_any_state(s, remote, msg, limited) ==
    IF remote \notin DOMAIN s.sessions THEN [s |-> s, res |-> "Ok"]
    ELSE LET s0 == [s EXCEPT !.sessions[remote].last_active = s.clock] IN
    IF limited THEN [s |-> s0, res |-> "Ok"]
    ELSE handle_connected(s0, remote, msg)

\* Service::handle_message.  limited: the rate limiter rejects the message.
handle_message(s, remote, msg, limited) ==
    IF remote \notin DOMAIN s.sessions THEN [s |-> s, res |-> "Ok"]
    ELSE LET s0 == [s EXCEPT !.sessions[remote].last_active = s.clock] IN
    IF limited THEN [s |-> s0, res |-> "Ok"]
    ELSE IF ~is_connected(s0.sessions[remote]) THEN [s |-> s0, res |-> "Ok"]
    ELSE handle_connected(s0, remote, msg)

\* Service::received_message: an error of the handler disconnects the peer.
disconnect_on_error(r, remote) ==
    IF r.res = "Ok" THEN r
    ELSE [s |-> OutboxDisconnect(r.s, remote, <<"Session", r.res>>),
          res |-> r.res]

received_message(s, remote, msg, limited) ==
    disconnect_on_error(handle_message(s, remote, msg, limited), remote)

\* ------------------------------------------------------------------------
\* Periodic tasks (Service::wake)
\* ------------------------------------------------------------------------

\* Session::ping: a Connected session is sent a Ping and awaits the Pong.
session_ping(s, nid) ==
    IF ~is_connected(s.sessions[nid]) THEN s
    ELSE OutboxWrite([s EXCEPT !.sessions[nid].ping = "Awaiting"],
                     nid, [type |-> "Ping"], "write")

RECURSIVE ping_each(_, _)
ping_each(s, nids) ==
    IF nids = <<>> THEN s
    ELSE ping_each(session_ping(s, Head(nids)), Tail(nids))

\* The Connected sessions that have been silent for at least the delta.
inactive_sessions(s, delta) ==
    {n \in connected(s.sessions) :
        s.clock - s.sessions[n].last_active >= delta}

\* A keep-alive that pings only the sessions silent for longer than the
\* delta.
keep_alive_late(s) ==
    ping_each(s, SetToSeq(inactive_sessions(s, KEEP_ALIVE_DELTA + 1)))

\* Service::keep_alive.
keep_alive(s) ==
    ping_each(s, SetToSeq(inactive_sessions(s, KEEP_ALIVE_DELTA)))

RECURSIVE disconnect_each(_, _, _)
disconnect_each(s, nids, reason) ==
    IF nids = <<>> THEN s
    ELSE disconnect_each(OutboxDisconnect(s, Head(nids), reason),
                         Tail(nids), reason)

\* Service::disconnect_unresponsive_peers.
disconnect_unresponsive_peers(s) ==
    disconnect_each(s,
        SetToSeq(inactive_sessions(s, STALE_CONNECTION_TIMEOUT)),
        <<"Session", "Timeout">>)

\* routing::Store::get: the nodes that seed the repository.
routing_get(rt, rid) == {k[2] : k \in {j \in DOMAIN rt : j[1] = rid}}

\* Service::seeds, for a repository we do not have: the seeds we know from
\* the routing table; Seeds::connected keeps the connected ones.
seeds_connected(s, rid) ==
    {n \in routing_get(s.routing, rid) \ {Self} :
        n \in DOMAIN s.sessions /\ is_connected(s.sessions[n])}

RECURSIVE fetch_each(_, _, _)
fetch_each(s, rid, nids) ==
    IF nids = <<>> THEN s
    ELSE fetch_each(fetch(s, rid, Head(nids), NoChan), rid, Tail(nids))

RECURSIVE fetch_missing(_, _)
fetch_missing(s, rids) ==
    IF rids = <<>> THEN s
    ELSE fetch_missing(
           fetch_each(s, Head(rids), SetToSeq(seeds_connected(s, Head(rids)))),
           Tail(rids))

\* Service::fetch_missing_inventory.
fetch_missing_inventory(s) ==
    fetch_missing(s,
        SetToSeq({rid \in DOMAIN s.policies : ~storage_contains(s, rid)}))

\* The routing entries older than the cutoff.
routing_older(rt, oldest) == {k \in DOMAIN rt : rt[k] < oldest}

\* routing::Store::prune: DELETE ... WHERE timestamp < oldest LIMIT limit
\* has no ORDER BY, so which of the old rows go is up to the database;
\* these are the sets of rows it may delete.
routing_prune_choices(rt, oldest, limit) ==
    {D \in SUBSET routing_older(rt, oldest) :
        Cardinality(D) =
            IF limit < Cardinality(routing_older(rt, oldest))
            THEN limit ELSE Cardinality(routing_older(rt, oldest))}

\* routing::Store::prune, once the database chose the rows.
routing_prune(rt, deleted) ==
    [rt |-> [k \in DOMAIN rt \ deleted |-> rt[k]],
     count |-> Cardinality(deleted)]

\* What Service::prune_routing_entries may delete.
prune_routing_choices(s) ==
    IF Cardinality(DOMAIN s.routing) <= ConfigRoutingMaxSize THEN {{}}
    ELSE routing_prune_choices(s.routing, s.clock - ConfigRoutingMaxAge,
             Cardinality(DOMAIN s.routing) - ConfigRoutingMaxSize)

\* A pruning that runs whatever the size of the table.
prune_routing_always(s, deleted) ==
    [s EXCEPT !.routing =
        routing_prune(@, routing_older(@, s.clock - ConfigRoutingMaxAge)).rt]

\* Service::prune_routing_entries.
prune_routing_entries(s, deleted) ==
    IF Cardinality(DOMAIN s.routing) <= ConfigRoutingMaxSize THEN s
    ELSE [s EXCEPT !.routing = routing_prune(@, deleted).rt]

\* gossip::Store::prune: drop the announcements older than the cutoff.
gossip_prune(g, oldest) ==
    [k \in {j \in DOMAIN g : g[j].ts >= oldest} |-> g[k]]

\* Service::wake, the idle task.
idle_task(s) ==
    IF s.clock - s.last_idle < IDLE_INTERVAL THEN s
    ELSE [OutboxWakeup(
            maintain_connections(
              disconnect_unresponsive_peers(keep_alive(s))),
            IDLE_INTERVAL)
          EXCEPT !.last_idle = s.clock]

\* Service::wake, the sync task.
sync_task(s) ==
    IF s.clock - s.last_sync < SYNC_INTERVAL THEN s
    ELSE [OutboxWakeup(fetch_missing_inventory(s), SYNC_INTERVAL)
          EXCEPT !.last_sync = s.clock]

\* Service::wake, the announcement of the inventory.
announce_task(s) ==
    IF s.clock - s.last_announce < ANNOUNCE_INTERVAL THEN s
    ELSE [OutboxWakeup(announce_inventory(s, storage_inventory(s)),
                       ANNOUNCE_INTERVAL)
          EXCEPT !.last_announce = s.clock]

\* Service::wake, the prune task.
prune_task(s, deleted) ==
    IF s.clock - s.last_prune < PRUNE_INTERVAL THEN s
    ELSE [OutboxWakeup(prune_routing_entries(s, deleted), PRUNE_INTERVAL)
          EXCEPT !.gossip = gossip_prune(@, s.clock - ConfigGossipMaxAge),
                 !.last_prune = s.clock]

\* Service::reconnect.
reconnect(s, nid) ==
    OutboxConnect([s EXCEPT !.sessions[nid] = to_initial(@)], nid)

RECURSIVE reconnect_each(_, _)
reconnect_each(s, nids) ==
    IF nids = <<>> THEN s
    ELSE reconnect_each(reconnect(s, Head(nids)), Tail(nids))

\* A maintain_persistent that dials every disconnected persistent peer
\* again, due or not.
maintain_persistent_eager(s) ==
    reconnect_each(s,
        SetToSeq({n \in DOMAIN s.sessions :
                    /\ is_persistent(n)
                    /\ s.sessions[n].state = "Disconnected"}))

\* Service::maintain_persistent: dial again the persistent peers whose
\* retry time has come.
maintain_persistent(s) ==
    reconnect_each(s,
        SetToSeq({n \in DOMAIN s.sessions :
                    /\ is_persistent(n)
                    /\ s.sessions[n].state = "Disconnected"
                    /\ s.clock >= s.sessions[n].retry_at}))

\* Service::wake.  deleted: the rows the routing store prunes.
wake(s, deleted) ==
    maintain_persistent(
        prune_task(announce_task(sync_task(idle_task(s))), deleted))

\* ------------------------------------------------------------------------
\* Commands
\* ------------------------------------------------------------------------

\* A Command::Seed that tells every session, whatever its state.
command_seed_everyone(s, rid, scope) ==
    LET s1 == [s EXCEPT !.policies = MapPut(@, rid, scope),
                        !.filter = @ \cup {rid}]
    IN  OutboxBroadcast(s1,
                        SubscribeMsg(service_filter(s1), s1.clock, TIMESTAMP_MAX),
                        DOMAIN s1.sessions, "broadcast")

\* Service::seed and the broadcast of Command::Seed.
command_seed(s, rid, scope) ==
    LET s1 == [s EXCEPT !.policies = MapPut(@, rid, scope),
                        !.filter = @ \cup {rid}]
    IN  OutboxBroadcast(s1,
                        SubscribeMsg(service_filter(s1), s1.clock, TIMESTAMP_MAX),
                        connected(s1.sessions), "broadcast")

\* A Command::Unseed that tells the connected sessions of the new filter.
command_unseed_tells(s, rid) ==
    LET s1 == [s EXCEPT !.policies = MapDel(@, rid)]
        s2 == [s1 EXCEPT !.filter = DOMAIN s1.policies]
    IN  OutboxBroadcast(s2,
                        SubscribeMsg(service_filter(s2), s2.clock, TIMESTAMP_MAX),
                        connected(s2.sessions), "broadcast")

\* An unseed that leaves the filter as it is.
command_unseed_stale(s, rid) == [s EXCEPT !.policies = MapDel(@, rid)]

\* Service::unseed: the filter is rebuilt from the policies.
command_unseed(s, rid) ==
    LET s1 == [s EXCEPT !.policies = MapDel(@, rid)]
    IN  [s1 EXCEPT !.filter = DOMAIN s1.policies]

\* Command::SyncInventory.
command_sync_inventory(s) == sync_inventory(s)

\* Service::initialize.
RECURSIVE preload(_, _)
preload(s, rids) ==
    IF rids = <<>> THEN s
    ELSE LET rid == Head(rids)
             due == /\ is_seeding(s, rid)
                    /\ Self \in s.storage[rid]
                    /\ <<rid, Self>> \notin DOMAIN s.seeds
             s1 == IF due
                   THEN [s EXCEPT
                           !.seeds = seeds_synced(@, rid, Self, "X", s.clock),
                           !.gossip = gossip_announced(@,
                               Ann(Self, "Refs", s.clock, TRUE, TRUE, <<>>,
                                   rid, {Self}))]
                   ELSE s
         IN  preload(s1, Tail(rids))

initialize(s) ==
    LET rids == storage_inventory(s)
        s1 == [s EXCEPT
                 !.addresses = address_insert(@, Self, StartTime),
                 !.routing = routing_insert(@, rids, Self, s.clock).rt]
        s2 == preload(s1, rids)
        s3 == [s2 EXCEPT !.filter = DOMAIN s2.policies]
        s4 == connect_each(s3, SetToSeq(ConfigConnect))
    IN  OutboxWakeup(s4, IDLE_INTERVAL)

\* ------------------------------------------------------------------------
\* Inputs
\* ------------------------------------------------------------------------

\* Inventories announced by the peers.
Inventories == {<<>>, <<"R1">>}

\* The timestamps from the furthest future admitted on.
LateTimestamps == {ts \in Timestamps : ts >= StartTime + MAX_TIME_DELTA}

\* Announcements signed by the peer "A", of every variant: at the last
\* timestamp admitted and past it, the Refs ones also from the past.
NodeAnns ==
    {Ann("A", "Node", ts, TRUE, TRUE, <<>>, NoRid, {}) : ts \in LateTimestamps}

InventoryAnns ==
    {Ann("A", "Inventory", ts, TRUE, TRUE, inv, NoRid, {}) :
        ts \in LateTimestamps, inv \in Inventories}

RefsAnns ==
    {Ann("A", "Refs", ts, TRUE, TRUE, <<>>, "R1", {"A"}) : ts \in Timestamps}

\* The same announcements with a signature that does not verify.
Forged(anns) == {[a EXCEPT !.valid = FALSE] : a \in anns}

ForgedAnns ==
    Forged({a \in NodeAnns : a.ts = StartTime + MAX_TIME_DELTA + 1}
           \cup {a \in InventoryAnns : a.ts = StartTime + MAX_TIME_DELTA}
           \cup {a \in RefsAnns : a.ts = StartTime - 100})

\* Announcements that carry our own node id.
SelfAnns ==
    {Ann(Self, "Inventory", StartTime + MAX_TIME_DELTA + 1, TRUE, TRUE,
         <<"R1">>, NoRid, {})}

Announcements ==
    NodeAnns \cup InventoryAnns \cup RefsAnns \cup SelfAnns \cup ForgedAnns

AnnouncementMsgs == {AnnMsg(a) : a \in Announcements}

SubscribeMsgs == {SubscribeMsg({"R1"}, StartTime, TIMESTAMP_MAX)}

Messages ==
    AnnouncementMsgs
    \cup SubscribeMsgs
    \cup {[type |-> "Info", rid |-> "R1"]}
    \cup {[type |-> "Ping", big |-> b] : b \in BOOLEAN}
    \cup {[type |-> "Pong", matches |-> TRUE]}

\* What the worker reports for a fetch.
FetchResults ==
    {[ok |-> TRUE, updated |-> u, timeout |-> FALSE] : u \in BOOLEAN}
    \cup {[ok |-> FALSE, updated |-> FALSE, timeout |-> to] : to \in BOOLEAN}

\* Local storage at construction: one repository of our own.
InitStorages == {[r \in {"R2"} |-> {Self}]}

NoMsg == [type |-> "-"]

\* How far the last inputs are into the sequence Fetch(R, "A"), Fetch(R, "B"),
\* fetched(R, "A"), begun with both peers connected and no fetch of R in
\* flight: 1, 2 and 3 after its first, second and third input, else 0.
scenario(op, rid, nid) ==
    IF op = "Fetch" /\ nid = "B" /\ ev.scenario = 1 /\ ev.rid = rid THEN 2
    ELSE IF /\ op = "Fetch" /\ nid = "A"
            /\ {"A", "B"} \subseteq DOMAIN sessions
            /\ is_connected(sessions["A"]) /\ is_connected(sessions["B"])
            /\ rid \notin DOMAIN fetching
    THEN 1
    ELSE IF op = "fetched" /\ nid = "A" /\ ev.scenario = 2 /\ ev.rid = rid
    THEN 3
    ELSE 0

\* The sequence began with the repository seeded, the queue empty and a
\* free fetch slot on both peers.
clean(op, rid, nid) ==
    IF scenario(op, rid, nid) = 1
    THEN /\ rid \in DOMAIN policies
         /\ queue = <<>>
         /\ ~is_at_capacity(sessions["A"])
         /\ ~is_at_capacity(sessions["B"])
    ELSE scenario(op, rid, nid) \in {2, 3} /\ ev.clean

\* The handler runs Service::sync_inventory: the command asks for it, and
\* Service::fetched ends with it when it finds the FetchState.
runs_sync_inventory(op, rid) ==
    op = "SyncInventory" \/ (op = "fetched" /\ rid \in DOMAIN fetching)

\* What happened since sync_inventory ran last.  kept: it ran, and since
\* then local storage has not changed and the routing store holds the
\* entries of the local node as that run left them; at: the clock of that
\* run; again: this handler ran it on such a state; prev: the clock of the
\* run before this one.
since_sync(op, rid) ==
    IF runs_sync_inventory(op, rid)
    THEN [kept |-> TRUE, at |-> clock', again |-> ev.sync.kept,
          prev |-> ev.sync.at]
    ELSE [kept |-> /\ ev.sync.kept
                   /\ storage' = storage
                   /\ get_resources(routing', Self) =
                         get_resources(routing, Self),
          at |-> ev.sync.at, again |-> FALSE, prev |-> ev.sync.prev]

\* Before any handler has run.
EvNew ==
    [op |-> "new", rid |-> NoRid, nid |-> Self, chan |-> NoChan,
     res |-> "Ok", msg |-> NoMsg, scenario |-> 0, clean |-> FALSE,
     sync |-> [kept |-> FALSE, at |-> 0, again |-> FALSE, prev |-> 0]]

\* The input the last handler ran on and what it answered.
Ev(op, rid, nid, chan, res, msg) ==
    [op |-> op, rid |-> rid, nid |-> nid, chan |-> chan, res |-> res,
     msg |-> msg, scenario |-> scenario(op, rid, nid),
     clean |-> clean(op, rid, nid), sync |-> since_sync(op, rid)]

\* The fetch actions in an outbox, as <<rid, remote>> pairs.
fetch_actions(ob) ==
    {<<ob[i].rid, ob[i].remote>> : i \in {j \in 1..Len(ob) : ob[j].type = "Fetch"}}

\* The handler leaves the service in state s; the workers take the fetches.
Handled(s, done) ==
    /\ Len(s.queue) <= MaxQueue
    /\ Becomes(s)
    /\ inflight' = (inflight \ done) \cup fetch_actions(s.outbox)

\* ------------------------------------------------------------------------
\* Initial state and actions
\* ------------------------------------------------------------------------

Init ==
    /\ sessions = <<>>
    /\ fetching = <<>>
    /\ queue = <<>>
    /\ outbox = <<>>
    /\ emitted = <<>>
    /\ routing = <<>>
    /\ gossip = <<>>
    /\ addresses = <<>>
    /\ seeds = <<>>
    /\ storage \in InitStorages
    /\ policies = [r \in DOMAIN storage |-> "All"]
    /\ filter = {}
    /\ clock = StartTime
    /\ started = FALSE
    /\ replies = [c \in Chans |-> <<>>]
    /\ nextChan = 1
    /\ inflight = {}
    /\ last_idle = 0
    /\ last_sync = 0
    /\ last_announce = 0
    /\ last_prune = 0
    /\ ev = EvNew

Initialize ==
    /\ ~started
    /\ Handled(initialize(St), {})
    /\ started' = TRUE
    /\ ev' = Ev("initialize", NoRid, Self, NoChan, "Ok", NoMsg)
    /\ UNCHANGED nextChan

\* The timer fired on a routing table of this many entries.
WakeMsg == [type |-> "Wake", routes |-> Cardinality(DOMAIN routing)]

\* Service::tick.
tick(s, now) == [s EXCEPT !.clock = now]

\* Service::tick: the reactor sets the clock to one of the given times.
Tick(Times) ==
    /\ started
    /\ \E now \in Times :
        /\ now > clock
        /\ now <= StartTime + MaxElapsed
        /\ Handled(tick(St, now), {})
    /\ ev' = Ev("tick", NoRid, Self, NoChan, "Ok", NoMsg)
    /\ UNCHANGED <<started, nextChan>>

\* The rows the routing store may prune when the service wakes now.
wake_choices(s) ==
    IF s.clock - s.last_prune < PRUNE_INTERVAL THEN {{}}
    ELSE prune_routing_choices(s)

\* Service::wake: the service woke up on its own.
Wake ==
    /\ started
    /\ \E deleted \in wake_choices(St) :
        Handled(wake(St, deleted), {})
    /\ ev' = Ev("wake", NoRid, Self, NoChan, "Ok", WakeMsg)
    /\ UNCHANGED <<started, nextChan>>

\* A timer of the reactor fired at one of the given times: the reactor
\* sets the clock with Service::tick and calls Service::wake.
Timer(Times) ==
    /\ started
    /\ \E now \in Times :
        /\ now > clock
        /\ now <= StartTime + MaxElapsed
        /\ \E deleted \in wake_choices(tick(St, now)) :
            Handled(wake(tick(St, now), deleted), {})
    /\ ev' = Ev("wake", NoRid, Self, NoChan, "Ok", WakeMsg)
    /\ UNCHANGED <<started, nextChan>>

\* Command::Fetch with a new reply channel.
CommandFetch(P) ==
    /\ started
    /\ nextChan \in Chans
    /\ \E rid \in RIDs, nid \in P :
        /\ Handled(fetch(St, rid, nid, nextChan), {})
        /\ ev' = Ev("Fetch", rid, nid, nextChan,
                    try_fetch(St, rid, nid, {}).res, NoMsg)
    /\ nextChan' = nextChan + 1
    /\ UNCHANGED started

\* Command::Fetch sent again with the reply channel of a fetch in flight.
CommandFetchAgain ==
    /\ started
    /\ \E rid \in DOMAIN fetching :
       \E c \in SeqToSet(fetching[rid].subscribers) :
        /\ Handled(fetch(St, rid, fetching[rid].from, c), {})
        /\ ev' = Ev("Fetch", rid, fetching[rid].from, c,
                    try_fetch(St, rid, fetching[rid].from, {}).res, NoMsg)
    /\ UNCHANGED <<started, nextChan>>

\* Command::Seed.
CommandSeed(Rids, Scopes) ==
    /\ started
    /\ \E rid \in Rids, scope \in Scopes :
        /\ Handled(command_seed(St, rid, scope), {})
        /\ ev' = Ev("Seed", rid, Self, NoChan, "Ok", NoMsg)
    /\ UNCHANGED <<started, nextChan>>

\* Command::Unseed.
CommandUnseed ==
    /\ started
    /\ \E rid \in RIDs :
        /\ Handled(command_unseed(St, rid), {})
        /\ ev' = Ev("Unseed", rid, Self, NoChan, "Ok", NoMsg)
    /\ UNCHANGED <<started, nextChan>>

\* The answer of sync_inventory, as the input of the step records it.
SyncedMsg(synced) ==
    [type |-> "Synced", added |-> synced.added, removed |-> synced.removed,
     updated |-> synced.updated]

\* The handler of Command::SyncInventory answers synced.
Synced(synced) ==
    /\ Handled(synced.s, {})
    /\ ev' = Ev("SyncInventory", NoRid, Self, NoChan, "Ok", SyncedMsg(synced))

\* Command::SyncInventory.
CommandSyncInventory ==
    /\ started
    /\ Synced(command_sync_inventory(St))
    /\ UNCHANGED <<started, nextChan>>

\* Command::Connect, not persistent.
CommandConnect(P) ==
    /\ started
    /\ \E nid \in P :
        /\ Handled(connect(St, nid), {})
        /\ ev' = Ev("Connect", NoRid, nid, NoChan, "Ok", NoMsg)
    /\ UNCHANGED <<started, nextChan>>

\* Command::Disconnect.
CommandDisconnect(P) ==
    /\ started
    /\ \E nid \in P :
        /\ Handled(OutboxDisconnect(St, nid, <<"Command", "-">>), {})
        /\ ev' = Ev("Disconnect", NoRid, nid, NoChan, "Ok", NoMsg)
    /\ UNCHANGED <<started, nextChan>>

\* Service::attempted: the reactor dials a session in Initial state.
Attempted ==
    /\ started
    /\ \E nid \in DOMAIN sessions :
        /\ sessions[nid].state = "Initial"
        /\ sessions[nid].attempts < MaxAttempts
        /\ Handled(on_attempted(St, nid), {})
        /\ ev' = Ev("attempted", NoRid, nid, NoChan, "Ok", NoMsg)
    /\ UNCHANGED <<started, nextChan>>

\* Service::connected, outbound: the dial of an Attempted session
\* succeeded; the peer answers one of the first Dials dials.
ConnectedOutbound(Dials) ==
    /\ started
    /\ \E nid \in DOMAIN sessions :
        /\ sessions[nid].state = "Attempted"
        /\ sessions[nid].attempts <= Dials
        /\ \E build \in Builds :
             Handled(on_connected(St, nid, "Outbound", build), {})
        /\ ev' = Ev("connected", "Outbound", nid, NoChan, "Ok", NoMsg)
    /\ UNCHANGED <<started, nextChan>>

\* Service::connected, inbound: a peer connected to us.
ConnectedInbound(P) ==
    /\ started
    /\ \E nid \in P :
        /\ \E build \in Builds :
             Handled(on_connected(St, nid, "Inbound", build), {})
        /\ ev' = Ev("connected", "Inbound", nid, NoChan, "Ok", NoMsg)
    /\ UNCHANGED <<started, nextChan>>

\* What a disconnection found: the fetches running from the peer, the
\* fetches running from others, and the length of the queue.
LostMsg(nid) ==
    [type |-> "Lost", failed |-> fetches_from(St, nid),
     others |-> DOMAIN fetching \ fetches_from(St, nid),
     queued |-> Len(queue)]

\* Service::disconnected: the connection or the dial of a session ended.
Disconnected(P) ==
    /\ started
    /\ \E nid \in DOMAIN sessions \cap P :
        /\ sessions[nid].state \in {"Attempted", "Connected"}
        /\ Handled(disconnected(St, nid), {})
        /\ ev' = Ev("disconnected", NoRid, nid, NoChan, "Ok", LostMsg(nid))
    /\ UNCHANGED <<started, nextChan>>

\* The handler of a message answers r.
Answered(r, op, remote, msg) ==
    /\ Handled(r.s, {})
    /\ ev' = Ev(op, NoRid, remote, NoChan, r.res, msg)

\* Service::received_message.
ReceivedMessage(P, Msgs) ==
    /\ started
    /\ \E remote \in P, msg \in Msgs :
        Answered(received_message(St, remote, msg, FALSE),
                 "received_message", remote, msg)
    /\ UNCHANGED <<started, nextChan>>

\* Announcements tried against a rate limiter that rejects them.
LimitedAnns ==
    {a \in InventoryAnns : a.ts = StartTime + MAX_TIME_DELTA + 1}
    \cup Forged({a \in InventoryAnns : a.ts = StartTime + MAX_TIME_DELTA})

\* Service::received_message, for a message the rate limiter rejects.
ReceivedLimited(P) ==
    /\ started
    /\ \E remote \in P, msg \in LimitedAnns :
        Answered(received_message(St, remote, AnnMsg(msg), TRUE),
                 "rate_limited", remote, AnnMsg(msg))
    /\ UNCHANGED <<started, nextChan>>

\* The worker's effect on storage, done before it reports.
worker_stored(st, rid, remote, result) ==
    IF result.ok /\ result.updated
    THEN MapPut(st, rid, (IF rid \in DOMAIN st THEN st[rid] ELSE {}) \cup {remote})
    ELSE st

\* Service::fetched: a worker reports the fetch of rid from remote.
Fetched(Results) ==
    /\ started
    /\ \E f \in inflight, result \in Results :
        LET res == [ok |-> result.ok, updated |-> result.updated,
                    timeout |-> result.timeout, namespaces |-> {f[2]}]
            s0 == [St EXCEPT !.storage = worker_stored(@, f[1], f[2], result)]
        IN
        /\ Handled(fetched(s0, f[1], f[2], res), {f})
        /\ ev' = Ev("fetched", f[1], f[2], NoChan,
                    IF result.ok THEN "Ok"
                    ELSE IF result.timeout THEN "Timeout" ELSE "Error",
                    [type |-> "FetchResult", updated |-> result.updated,
                     known |-> f[1] \in DOMAIN fetching])
    /\ UNCHANGED <<started, nextChan>>

\* The peers of the fetch scheduler's specification.
FetchPeers == {"A", "B"}

\* The peers that send announcements: the announcer itself and another.
Relayers == {"A", "B"}

\* The fetch scheduler under commands and session events.
NextFetch ==
    \/ Initialize
    \/ CommandFetch(FetchPeers)
    \/ CommandFetchAgain
    \/ CommandSeed(RIDs, {"All"})
    \/ CommandUnseed
    \/ ConnectedInbound(FetchPeers)
    \/ Disconnected(FetchPeers)
    \/ Fetched(FetchResults)

SpecFetch == Init /\ [][NextFetch]_vars

\* The gossip pipeline under messages of connected peers.
NextGossip ==
    \/ Initialize
    \/ CommandSeed({"R1"}, {"All"})
    \/ ConnectedInbound(Relayers)
    \/ Attempted
    \/ ConnectedOutbound(MaxAttempts)
    \/ ReceivedMessage(Relayers, AnnouncementMsgs)
    \/ ReceivedMessage(Peers \ Relayers, SubscribeMsgs)
    \/ ReceivedLimited({"B"})

SpecGossip == Init /\ [][NextGossip]_vars

\* The times at which a disconnected session is due for another dial.
RetryTimes ==
    {sessions[n].retry_at :
        n \in {m \in DOMAIN sessions : sessions[m].state = "Disconnected"}}

\* The persistent peer: dialled, connected, lost and dialled again when
\* the timer of the reactor fires.  The peer answers a first dial only.
NextReconnect ==
    \/ Initialize
    \/ Attempted
    \/ ConnectedOutbound(1)
    \/ Disconnected(ConfigConnect)
    \/ Timer(RetryTimes)

SpecReconnect == Init /\ [][NextReconnect]_vars

\* The times at which the reactor's timer fires under NextInventory.
InventoryTimes == {StartTime + PRUNE_INTERVAL + 100, StartTime + MaxElapsed - 100}

\* The inventory of the local node: repositories arrive by fetches, the
\* operator asks for a synchronisation, the periodic tasks run.
NextInventory ==
    \/ Initialize
    \/ ConnectedInbound({"A"})
    \/ CommandSeed({"R1"}, {"All"})
    \/ CommandFetch({"A"})
    \/ Fetched(FetchResults)
    \/ Disconnected({"A"})
    \/ CommandSyncInventory
    \/ Timer(InventoryTimes)

SpecInventory == Init /\ [][NextInventory]_vars

\* The times at which the timer fires under NextPersistent: when a
\* disconnected session is due for another dial, and one second earlier,
\* through the first minute.
EarlyTimes ==
    {t \in RetryTimes \cup {r - 1 : r \in RetryTimes} :
        t <= StartTime + KEEP_ALIVE_DELTA}

\* A persistent peer and one that is not, both lost, while the timer
\* fires before and at the time of the next dial.
NextPersistent ==
    \/ Initialize
    \/ Attempted
    \/ ConnectedOutbound(1)
    \/ ConnectedInbound({"A"})
    \/ Disconnected({"A"} \cup ConfigConnect)
    \/ Timer(EarlyTimes)

SpecPersistent == Init /\ [][NextPersistent]_vars

\* Sessions of every kind: a persistent peer, a peer dialled on command
\* and a peer that dials us, connected and lost while fetches run.
NextSessions ==
    \/ Initialize
    \/ CommandConnect({"B"})
    \/ Attempted
    \/ ConnectedOutbound(MaxAttempts)
    \/ ConnectedInbound(Peers)
    \/ CommandFetch({"A", "B"})
    \/ ReceivedMessage({"A"}, SubscribeMsgs)
    \/ Disconnected(Peers)

SpecSessions == Init /\ [][NextSessions]_vars

\* The announcements by which the peers make themselves known.
PeerNodeMsgs ==
    {AnnMsg(Ann(n, "Node", StartTime - 100, TRUE, TRUE, <<>>, NoRid, {})) :
        n \in FetchPeers}

\* The refs announcements that start a fetch nobody asked for.
RefsMsgs == {AnnMsg(a) : a \in {b \in RefsAnns : b.ts <= StartTime}}

\* Fetches asked for by the operator and fetches started by the refs
\* announcements of a peer, and what the workers report of them.
NextAnnounce ==
    \/ Initialize
    \/ CommandSeed({"R1"}, {"All"})
    \/ ConnectedInbound({"A", "B"})
    \/ ReceivedMessage({"A"}, RefsMsgs \cup PeerNodeMsgs)
    \/ CommandFetch({"A"})
    \/ Fetched(FetchResults)

SpecAnnounce == Init /\ [][NextAnnounce]_vars

\* The times at which the reactor's timer fires under NextIdle: around
\* KEEP_ALIVE_DELTA and STALE_CONNECTION_TIMEOUT after the start.
IdleTimes ==
    {StartTime + d :
        d \in {IDLE_INTERVAL, KEEP_ALIVE_DELTA - 1, KEEP_ALIVE_DELTA,
               KEEP_ALIVE_DELTA + 10, STALE_CONNECTION_TIMEOUT - 1,
               STALE_CONNECTION_TIMEOUT, STALE_CONNECTION_TIMEOUT + IDLE_INTERVAL}}

\* Connected peers that speak or stay silent while the timer fires.
NextIdle ==
    \/ Initialize
    \/ ConnectedInbound({"A", "B"})
    \/ ReceivedMessage({"A", "B"}, SubscribeMsgs)
    \/ Timer(IdleTimes)

SpecIdle == Init /\ [][NextIdle]_vars

\* What a peer sends under NextQueue: the announcement of its node and
\* refs announcements for both repositories, each of which starts a fetch
\* from the peer that nobody waits for.
QueueMsgs(n) ==
    {AnnMsg(Ann(n, "Node", StartTime - 100, TRUE, TRUE, <<>>, NoRid, {}))}
    \cup {AnnMsg(Ann(n, "Refs", StartTime - 100, TRUE, TRUE, <<>>, r, {n})) :
            r \in RIDs}

\* The reports of workers that updated no ref.
QueueResults == {r \in FetchResults : ~r.updated}

\* The fetch queue under fetches that announcements start, while peers
\* come and go and workers report.
NextQueue ==
    \/ Initialize
    \/ CommandSeed({"R1"}, {"All"})
    \/ ConnectedInbound(FetchPeers)
    \/ ReceivedMessage({"A"}, QueueMsgs("A"))
    \/ ReceivedMessage({"B"}, QueueMsgs("B"))
    \/ Disconnected(FetchPeers)
    \/ Fetched(QueueResults)

SpecQueue == Init /\ [][NextQueue]_vars

\* Refs announcements of a connected peer and of a peer whose dial is
\* under way, received from their announcer or from another peer.
NextRefs ==
    \/ Initialize
    \/ CommandSeed({"R1"}, {"All"})
    \/ ConnectedInbound(FetchPeers)
    \/ Attempted
    \/ ReceivedMessage(FetchPeers, QueueMsgs("A") \cup QueueMsgs("C"))
    \/ Fetched(QueueResults)

SpecRefs == Init /\ [][NextRefs]_vars

\* The timestamps of the announcements that write routes: an older and a
\* newer one.
RouteStamps == {StartTime - 200, StartTime - 100}

\* What the peers send under NextRoutes: the node announcement of A, its
\* inventory announcements and its refs announcements for a repository we
\* do not seed, each at either timestamp.
RouteMsgs ==
    {AnnMsg(Ann("A", "Node", StartTime - 200, TRUE, TRUE, <<>>, NoRid, {}))}
    \cup {AnnMsg(Ann("A", "Inventory", ts, TRUE, TRUE, inv, NoRid, {})) :
            ts \in RouteStamps, inv \in {<<>>, <<"R1">>, <<"R2">>, <<"R1", "R2">>}}
    \cup {AnnMsg(Ann("A", "Refs", ts, TRUE, TRUE, <<>>, "R1", {"A"})) :
            ts \in RouteStamps}

\* The routing table under the announcements of a peer, received from it
\* and from another peer.
NextRoutes ==
    \/ Initialize
    \/ ConnectedInbound(Relayers)
    \/ ReceivedMessage(Relayers, RouteMsgs)

SpecRoutes == Init /\ [][NextRoutes]_vars

\* What the routing store's operations leave alone.
service_but_routing ==
    <<sessions, fetching, queue, outbox, emitted, gossip, addresses, seeds,
      policies, filter, storage, clock, started, replies, nextChan, inflight,
      last_idle, last_sync, last_announce, last_prune>>

\* The timestamps of the entries written to the routing store: older
\* than, equal to and younger than the cutoff of the last pruning.
RoutingTimestamps ==
    {StartTime, StartTime + MaxElapsed - 100 - ConfigRoutingMaxAge,
     StartTime + MaxElapsed - 100}

\* The lists of ids handed to one insert.
RoutingIds == {<<"R1">>, <<"R2">>, <<"R1", "R2">>, <<"R1", "R1">>}

\* routing::Store::insert, called on the store as it is.
RoutingInsert ==
    /\ \E ids \in RoutingIds, node \in {Self, "A"}, time \in RoutingTimestamps :
        /\ routing' = routing_insert(routing, ids, node, time).rt
        /\ UNCHANGED service_but_routing
        /\ ev' = Ev("insert", NoRid, node, NoChan, "Ok",
                    [type |-> "Insert", ids |-> ids, time |-> time,
                     results |-> routing_insert(routing, ids, node, time).results])

\* The limits of a pruning: a number of rows, or None, which the store
\* turns into i64::MAX and which is here the number of rows of the table.
prune_limits(rt) == 0 .. Cardinality(DOMAIN rt)

\* routing::Store::prune, called on the store as it is.
RoutingPrune ==
    /\ \E oldest \in RoutingTimestamps, limit \in prune_limits(routing) :
       \E deleted \in routing_prune_choices(routing, oldest, limit) :
        /\ routing' = routing_prune(routing, deleted).rt
        /\ UNCHANGED service_but_routing
        /\ ev' = Ev("prune", NoRid, Self, NoChan, "Ok",
                    [type |-> "Prune", oldest |-> oldest, limit |-> limit,
                     count |-> routing_prune(routing, deleted).count])

\* The routing store under inserts and prunings, called directly and by
\* the service's periodic task.
NextRouting ==
    \/ Initialize
    \/ RoutingInsert
    \/ RoutingPrune
    \/ Timer(InventoryTimes)

SpecRouting == Init /\ [][NextRouting]_vars

\* Service::accepted: a trusted address is accepted without asking the
\* limiter, another one unless the limiter rejects it.
accepted(trusted, limited) ==
    [ok |-> trusted \/ ~limited, consulted |-> ~trusted]

\* Service::accepted, for an address that is trusted or not and that the
\* limiter would reject or not.
Accepted ==
    /\ \E trusted \in BOOLEAN, limited \in BOOLEAN :
        ev' = Ev("accepted", NoRid, Self, NoChan,
                 IF accepted(trusted, limited).ok THEN "Ok" ELSE "Refused",
                 [type |-> "Accepted", trusted |-> trusted,
                  limited |-> limited,
                  consulted |-> accepted(trusted, limited).consulted])
    /\ UNCHANGED <<routing, service_but_routing>>

\* Service::received_message, for any message the rate limiter rejects.
ReceivedLimitedOf(P, Msgs) ==
    /\ started
    /\ \E remote \in P, msg \in Msgs :
        Answered(received_message(St, remote, msg, TRUE),
                 "rate_limited", remote, msg)
    /\ UNCHANGED <<started, nextChan>>

\* What the peers send under NextIgnored: announcements of every variant,
\* one of them forged, a Subscribe, an Info, a Ping and a Pong.
IgnoredMsgs ==
    QueueMsgs("A")
    \cup {AnnMsg(Ann("A", "Inventory", StartTime - 100, TRUE, TRUE, <<"R1">>,
                      NoRid, {}))}
    \cup {AnnMsg(a) : a \in Forged({b \in RefsAnns : b.ts = StartTime - 100})}
    \cup SubscribeMsgs
    \cup {[type |-> "Info", rid |-> "R1"], [type |-> "Ping", big |-> FALSE],
          [type |-> "Pong", matches |-> TRUE]}

\* Messages that the rate limiter rejects and messages that reach a session
\* in whatever state, or no session at all.
NextIgnored ==
    \/ Initialize
    \/ Accepted
    \/ ConnectedInbound({"A"})
    \/ Attempted
    \/ ConnectedOutbound(MaxAttempts)
    \/ Disconnected({"A", "C"})
    \/ ReceivedMessage(Peers, IgnoredMsgs)
    \/ ReceivedLimitedOf(Peers, IgnoredMsgs)

SpecIgnored == Init /\ [][NextIgnored]_vars

\* The timestamps of the announcements a gossip store may hold, from the
\* smallest on: below, at and above MAX_TIME_DELTA, a day before the start
\* time, the start time and the furthest future it admits.
SubscribeStamps ==
    {0, 1, MAX_TIME_DELTA - 1, MAX_TIME_DELTA, MAX_TIME_DELTA + 1,
     StartTime - INITIAL_SUBSCRIBE_BACKLOG_DELTA, StartTime - MAX_TIME_DELTA,
     StartTime, StartTime + MAX_TIME_DELTA}

\* The gossip store holding node announcements of A and B with the given
\* timestamps, either of which may be missing.
SubscribeStore(a, b) ==
    LET held(n, ts) == IF ts = {} THEN <<>>
                       ELSE LET t == CHOOSE x \in ts : TRUE
                            IN  <<n, "Node", NoRid>> :>
                                  Ann(n, "Node", t, TRUE, TRUE, <<>>, NoRid, {})
    IN  held("A", a) @@ held("B", b)

SubscribeStores ==
    {SubscribeStore(a, b) :
        a \in {{}} \cup {{t} : t \in SubscribeStamps},
        b \in {{}} \cup {{t} : t \in SubscribeStamps}}

\* The clocks initial is called at, none earlier than a day past the epoch.
SubscribeClocks ==
    {INITIAL_SUBSCRIBE_BACKLOG_DELTA, StartTime, StartTime + MaxElapsed}

\* Service::initial, called with a gossip store and a clock.
InitialMessages ==
    /\ \E g \in SubscribeStores, now \in SubscribeClocks, build \in Builds :
        /\ ev' = Ev("initial", NoRid, Self, NoChan, build,
                    [type |-> "Initial",
                     held |-> {g[k].ts : k \in DOMAIN g},
                     now |-> now,
                     out |-> initial([St EXCEPT !.gossip = g, !.clock = now],
                                     build)])
    /\ UNCHANGED <<routing, service_but_routing>>

\* The initial messages over gossip stores and clocks.
NextSubscribe == InitialMessages

SpecSubscribe == Init /\ [][NextSubscribe]_vars

\* ------------------------------------------------------------------------
\* Properties of the fetch scheduler
\* ------------------------------------------------------------------------

\* The fetch actions of an outbox for one repository, by position.
fetches_of(ob, rid) ==
    {i \in 1..Len(ob) : ob[i].type = "Fetch" /\ ob[i].rid = rid}

\* The step is the handler that removes the FetchState of rid: fetched
\* for rid, or disconnected for the peer rid is fetched from.
resolves(rid) ==
    \/ ev'.op = "fetched" /\ ev'.rid = rid
    \/ /\ ev'.op = "disconnected"
       /\ rid \in DOMAIN fetching
       /\ fetching[rid].from = ev'.nid

\* C1: a repository has at most one FetchState, and no handler emits a
\* fetch action for a repository whose FetchState exists, from its dispatch
\* until fetched or disconnected removes it; a handler emits at most one
\* fetch per repository, and the FetchState names the peer of that fetch.
C1_OneFetchPerRepo ==
    [][\A rid \in RIDs :
        /\ Cardinality(fetches_of(outbox', rid)) <= 1
        /\ \A i \in fetches_of(outbox', rid) :
              /\ rid \in DOMAIN fetching'
              /\ fetching'[rid].from = outbox'[i].remote
        /\ (rid \in DOMAIN fetching /\ ~resolves(rid))
              => fetches_of(outbox', rid) = {}]_vars

\* A Fetch command for a repository that is being fetched from another
\* peer was handled: it was queued and no fetch action went out.
C1_Witness ==
    /\ ev.op = "Fetch"
    /\ ev.rid \in DOMAIN fetching
    /\ fetching[ev.rid].from # ev.nid
    /\ ev.nid \in DOMAIN sessions
    /\ is_connected(sessions[ev.nid])
    /\ fetches_of(outbox, ev.rid) = {}

\* The fetch slots a session holds never exceed the limit.
within_capacity ==
    \A n \in DOMAIN sessions :
        Cardinality(sessions[n].fetching) <= FetchConcurrency

\* The step handles Command::Fetch for a repository without FetchState
\* and a connected session that has no free slot.
fetch_at_capacity ==
    /\ ev'.op = "Fetch"
    /\ ev'.rid \notin DOMAIN fetching
    /\ ev'.nid \in DOMAIN sessions
    /\ is_connected(sessions[ev'.nid])
    /\ Cardinality(sessions[ev'.nid].fetching) >= FetchConcurrency

\* C2: no session ever fetches more than fetch_concurrency repositories; a
\* fetch action goes only to a session that holds the slot for it, and a
\* Fetch for a session at capacity is pushed to the back of the queue,
\* answered SessionCapacityReached and not dispatched.
C2_SessionCapacity ==
    /\ [](within_capacity)
    /\ [][/\ \A i \in 1..Len(outbox') :
               outbox'[i].type = "Fetch" =>
                   /\ outbox'[i].remote \in DOMAIN sessions'
                   /\ outbox'[i].rid \in sessions'[outbox'[i].remote].fetching
          /\ fetch_at_capacity =>
               /\ ev'.res = "SessionCapacityReached"
               /\ queue' = Append(queue, <<ev'.rid, ev'.nid>>)
               /\ fetches_of(outbox', ev'.rid) = {}
               /\ fetching' = fetching
               /\ sessions' = sessions
          /\ (ev'.op = "Fetch" /\ ev'.res = "SessionCapacityReached") =>
               /\ fetch_at_capacity
               /\ outbox' = <<>>]_vars

\* A Fetch was refused for capacity: the session is busy with another
\* repository and the refused fetch waits in the queue.
C2_Witness ==
    /\ ev.op = "Fetch"
    /\ ev.res = "SessionCapacityReached"
    /\ ev.nid \in DOMAIN sessions
    /\ Cardinality(sessions[ev.nid].fetching) = FetchConcurrency
    /\ queue # <<>>
    /\ queue[Len(queue)] = <<ev.rid, ev.nid>>

\* The reply channels registered with a FetchState, as a set.
subscribers_of(rid) == SeqToSet(fetching[rid].subscribers)

\* No channel is registered twice with a FetchState.
registered_once ==
    \A rid \in DOMAIN fetching :
        Cardinality(subscribers_of(rid)) = Len(fetching[rid].subscribers)

\* C3: a reply channel receives at most one FetchResult; it has received
\* exactly one as soon as fetched, or disconnected of the source peer,
\* resolves the FetchState it is registered with; it receives Failed at
\* once when try_fetch returns an error; the same channel submitted again
\* for the fetch in flight is not registered a second time.
C3_OneReplyPerChannel ==
    /\ [](\A c \in Chans : Len(replies[c]) <= 1)
    /\ [](registered_once)
    /\ [][/\ \A rid \in DOMAIN fetching :
               resolves(rid) =>
                   \A c \in subscribers_of(rid) : Len(replies'[c]) = 1
          /\ (ev'.op = "Fetch" /\ ev'.res # "Ok") =>
               /\ Len(replies'[ev'.chan]) = 1
               /\ replies'[ev'.chan][1].kind = "Failed"
               /\ \A rid \in DOMAIN fetching' :
                     ev'.chan \notin SeqToSet(fetching'[rid].subscribers)
          /\ (ev'.op = "Fetch" /\ ev'.res = "Ok") =>
               /\ replies'[ev'.chan] = replies[ev'.chan]
               /\ ev'.chan \in SeqToSet(fetching'[ev'.rid].subscribers)]_vars

\* A channel was submitted a second time for the fetch it waits for, is
\* registered once, and another channel already has its one result.
C3_Witness ==
    /\ ev.op = "Fetch"
    /\ ev.chan < nextChan - 1
    /\ ev.rid \in DOMAIN fetching
    /\ ev.chan \in subscribers_of(ev.rid)
    /\ \E c \in Chans : Len(replies[c]) = 1 /\ replies[c][1].kind = "Success"

\* What the claim of the queued second fetch asks of a step, for the
\* sequences that satisfy ok.
queued_then_dispatched(ok) ==
    /\ (ev'.scenario = 2 /\ ok) =>
          /\ fetch_actions(outbox) \cup fetch_actions(outbox')
                = {<<ev'.rid, "A">>}
          /\ Cardinality(fetches_of(outbox, ev'.rid))
                + Cardinality(fetches_of(outbox', ev'.rid)) = 1
          /\ queue' = Append(queue, <<ev'.rid, "B">>)
    /\ (ev'.scenario = 3 /\ ok) =>
          /\ Cardinality(fetches_of(outbox', ev'.rid)) = 1
          /\ \A i \in fetches_of(outbox', ev'.rid) : outbox'[i].remote = "B"

\* C4 as stated: with A and B connected and no fetch of R in flight,
\* Fetch(R, A) then Fetch(R, B) dispatch one fetch, from A, and queue
\* (R, B); fetched(R, A) then emits exactly one fetch of R, from B.
C4_AsStated == [][queued_then_dispatched(TRUE)]_vars

\* C4: with A and B connected, each with a free fetch slot, R seeded, the
\* queue empty and no fetch of R in flight, Fetch(R, A) directly followed
\* by Fetch(R, B) dispatches one fetch, from A, and queues (R, B);
\* fetched(R, A) directly after emits exactly one fetch of R, from B.
C4_QueuedSecondFetch == [][queued_then_dispatched(ev'.clean)]_vars

\* The three inputs were handled in a row from a clean start and the
\* queued fetch went out to B.
C4_Witness ==
    /\ ev.scenario = 3
    /\ ev.clean
    /\ fetch_actions(outbox) = {<<ev.rid, "B">>}
    /\ ev.rid \in DOMAIN fetching
    /\ fetching[ev.rid].from = "B"

\* ------------------------------------------------------------------------
\* Properties of the gossip pipeline
\* ------------------------------------------------------------------------

\* The step hands an announcement of a peer to received_message, whether
\* or not the rate limiter lets it through.
announcement_received ==
    /\ ev'.op \in {"received_message", "rate_limited"}
    /\ ev'.msg.type = "Announcement"

\* The peer the message comes from has a session in Connected state.
from_connected ==
    /\ ev'.nid \in DOMAIN sessions
    /\ is_connected(sessions[ev'.nid])

\* The positions of the relayed messages in an outbox.
relays(ob) == {i \in 1..Len(ob) : ob[i].type = "Write" /\ ob[i].via = "relay"}

\* The handler dispatched no fetch and queued none.
no_fetch ==
    /\ fetch_actions(outbox') = {}
    /\ queue' = queue
    /\ fetching' = fetching

\* The handler asked for no disconnect.
no_disconnect == \A i \in 1..Len(outbox') : outbox'[i].type # "Disconnect"

\* The handler asked to disconnect the peer for the given session error.
disconnects(nid, error) ==
    \E i \in 1..Len(outbox') :
        outbox'[i] = [type |-> "Disconnect", nid |-> nid,
                      reason |-> <<"Session", error>>]

\* What the claim of the bad signature asks of a step; the disconnect is
\* asked of the messages that satisfy ok.
forged_rejected(ok) ==
    (announcement_received /\ from_connected /\ ~ev'.msg.ann.valid) =>
        /\ gossip' = gossip
        /\ routing' = routing
        /\ addresses' = addresses
        /\ seeds' = seeds
        /\ no_fetch
        /\ relays(outbox') = {}
        /\ ok => disconnects(ev'.nid, "Misbehavior")

\* C5 as stated: an announcement with a bad signature from a connected
\* peer P enters no store, triggers no fetch and no relay, and always
\* makes the service emit Disconnect(P, Session(Misbehavior)).
C5_AsStated == [][forged_rejected(TRUE)]_vars

\* C5: an announcement with a bad signature from a connected peer P enters
\* no store and triggers no fetch and no relay; the service emits
\* Disconnect(P, Session(Misbehavior)) when the rate limiter lets the
\* message through, and nothing when it drops the message.
C5_BadSignature ==
    [][/\ forged_rejected(ev'.op = "received_message")
       /\ (announcement_received /\ ev'.op = "rate_limited") =>
             outbox' = <<>>]_vars

\* A forged announcement of a known announcer, fresh for the gossip
\* store, came from a connected peer while a third peer was connected,
\* and the one action of the service was to disconnect the sender.
C5_Witness ==
    /\ ev.op = "received_message"
    /\ ev.msg.type = "Announcement"
    /\ ~ev.msg.ann.valid
    /\ ev.msg.ann.kind = "Refs"
    /\ ev.msg.ann.node \in DOMAIN addresses
    /\ gossip_fresh(gossip, ev.msg.ann)
    /\ ev.msg.ann.rid \in DOMAIN policies
    /\ connected(sessions) = Peers
    /\ outbox = <<[type |-> "Disconnect", nid |-> ev.nid,
                   reason |-> <<"Session", "Misbehavior">>]>>

\* The announcement of the step is not our own and its timestamp is more
\* than MAX_TIME_DELTA ahead of the local clock.
from_the_future ==
    /\ announcement_received
    /\ from_connected
    /\ ev'.msg.ann.node # Self
    /\ ev'.msg.ann.ts > clock + MAX_TIME_DELTA

\* What the claim of the timestamp asks of a step; the disconnect is asked
\* of the messages that satisfy ok.
future_rejected(ok) ==
    /\ from_the_future =>
          /\ gossip' = gossip
          /\ relays(outbox') = {}
          /\ ok => disconnects(ev'.nid, "InvalidTimestamp")
    /\ (announcement_received /\ ev'.msg.ann.ts = clock + MAX_TIME_DELTA) =>
          ~disconnects(ev'.nid, "InvalidTimestamp")

\* C6 as stated: an announcement of another node with a timestamp beyond
\* now + MAX_TIME_DELTA is not written to the gossip store, not relayed,
\* and its relayer is disconnected with InvalidTimestamp; a timestamp of
\* exactly now + MAX_TIME_DELTA is not refused.
C6_AsStated == [][future_rejected(TRUE)]_vars

\* C6: an announcement of another node with a timestamp beyond
\* now + MAX_TIME_DELTA is not written to the gossip store and not
\* relayed; its relayer is disconnected with InvalidTimestamp when the
\* signature verifies and the rate limiter lets the message through, with
\* Misbehavior when the signature does not verify; a timestamp of exactly
\* now + MAX_TIME_DELTA is not refused.
C6_FutureTimestamp ==
    [][/\ future_rejected(ev'.msg.ann.valid /\ ev'.op = "received_message")
       /\ (from_the_future /\ ~ev'.msg.ann.valid
             /\ ev'.op = "received_message") =>
             /\ disconnects(ev'.nid, "Misbehavior")
             /\ ~disconnects(ev'.nid, "InvalidTimestamp")]_vars

\* An announcement one second beyond the limit, signed by a known
\* announcer and fresh for the gossip store, got its relayer disconnected.
C6_Witness ==
    /\ ev.op = "received_message"
    /\ ev.msg.type = "Announcement"
    /\ ev.msg.ann.valid
    /\ ev.msg.ann.ts = clock + MAX_TIME_DELTA + 1
    /\ ev.msg.ann.node \in DOMAIN addresses
    /\ gossip_fresh(gossip, ev.msg.ann)
    /\ connected(sessions) = Peers
    /\ outbox = <<[type |-> "Disconnect", nid |-> ev.nid,
                   reason |-> <<"Session", "InvalidTimestamp">>]>>

\* An announcement at exactly the limit was stored and relayed.
C6_WitnessAtLimit ==
    /\ ev.op = "received_message"
    /\ ev.msg.type = "Announcement"
    /\ ev.msg.ann.ts = clock + MAX_TIME_DELTA
    /\ gossip_key(ev.msg.ann) \in DOMAIN gossip
    /\ gossip[gossip_key(ev.msg.ann)].ts = ev.msg.ann.ts
    /\ relays(outbox) # {}

\* The step receives an Inventory or Refs announcement of an announcer
\* without node entry in the address store.
from_unknown ==
    /\ announcement_received
    /\ ev'.msg.ann.kind \in {"Inventory", "Refs"}
    /\ ev'.msg.ann.node \notin DOMAIN addresses

\* What the claim of the unknown announcer asks of a step; the silence is
\* asked of the messages that satisfy ok.
unknown_dropped(ok) ==
    from_unknown =>
        /\ gossip' = gossip
        /\ routing' = routing
        /\ seeds' = seeds
        /\ no_fetch
        /\ relays(outbox') = {}
        /\ ok => no_disconnect

\* C7 as stated: an Inventory or Refs announcement of an unknown announcer
\* is not stored in the gossip store, changes no routing or seed entry,
\* triggers no fetch, is not relayed and does not disconnect the relayer.
C7_AsStated == [][unknown_dropped(TRUE)]_vars

\* The announcement of the step passes the checks made before the look-up
\* of the announcer, or is dropped before them.
passes_early_checks ==
    \/ ev'.op = "rate_limited"
    \/ ~from_connected
    \/ /\ ev'.msg.ann.valid
       /\ \/ ev'.msg.ann.node = Self
          \/ ev'.msg.ann.ts <= clock + MAX_TIME_DELTA

\* C7: an Inventory or Refs announcement of an unknown announcer is not
\* stored in the gossip store, changes no routing or seed entry, triggers
\* no fetch and is not relayed; it does not disconnect the relayer unless
\* its signature does not verify or its timestamp is beyond
\* now + MAX_TIME_DELTA.
C7_UnknownAnnouncer ==
    [][/\ unknown_dropped(passes_early_checks)
       /\ (from_unknown /\ ~passes_early_checks) => ~no_disconnect]_vars

\* A well-formed Refs announcement for a seeded repository came from a
\* connected peer before any node announcement of its announcer, with a
\* third peer connected: nothing was stored and nothing went out.
C7_Witness ==
    /\ ev.op = "received_message"
    /\ ev.msg.type = "Announcement"
    /\ ev.msg.ann.kind = "Refs"
    /\ ev.msg.ann.valid
    /\ ev.msg.ann.ts <= clock + MAX_TIME_DELTA
    /\ ev.msg.ann.rid \in DOMAIN policies
    /\ ev.msg.ann.node \notin DOMAIN addresses
    /\ connected(sessions) = Peers
    /\ \A k \in DOMAIN gossip : k[1] = Self
    /\ outbox = <<>>

\* C8: relays are emitted only on the receipt of an announcement, and every
\* target of the relay of an announcement received from P and signed by N
\* is a session in Connected state other than P and N.
C8_RelayTargets ==
    [][\A i \in relays(outbox') :
        /\ ev'.op = "received_message"
        /\ ev'.msg.type = "Announcement"
        /\ outbox'[i].nid \in DOMAIN sessions'
        /\ is_connected(sessions'[outbox'[i].nid])
        /\ outbox'[i].nid \in DOMAIN sessions
        /\ is_connected(sessions[outbox'[i].nid])
        /\ outbox'[i].nid # ev'.nid
        /\ outbox'[i].nid # ev'.msg.ann.node]_vars

\* An announcement signed by A and relayed by B went to C alone while A
\* was connected too.
C8_Witness ==
    /\ ev.op = "received_message"
    /\ ev.msg.type = "Announcement"
    /\ ev.nid = "B"
    /\ ev.msg.ann.node = "A"
    /\ connected(sessions) = Peers
    /\ {outbox[i].nid : i \in relays(outbox)} = {"C"}

\* An announcement relayed by its announcer went to a connected peer while
\* the session of another peer was not in Connected state.
C8_WitnessUnconnected ==
    /\ ev.op = "received_message"
    /\ ev.msg.type = "Announcement"
    /\ ev.nid = ev.msg.ann.node
    /\ "C" \in DOMAIN sessions
    /\ ~is_connected(sessions["C"])
    /\ {outbox[i].nid : i \in relays(outbox)} = {"B"}

\* The announcement of the step is refused or dropped before the gossip
\* store takes it.
rejected ==
    \/ ev'.op = "rate_limited"
    \/ ~from_connected
    \/ ~ev'.msg.ann.valid
    \/ ev'.msg.ann.node = Self
    \/ ev'.msg.ann.ts > clock + MAX_TIME_DELTA
    \/ (ev'.msg.ann.kind # "Node" /\ ev'.msg.ann.node \notin DOMAIN addresses)
    \/ ~gossip_fresh(gossip, ev'.msg.ann)

\* C9: a relayed announcement is the one just received, was fresh for the
\* gossip store and is held by the store, under its key and with its
\* timestamp, when the relay is emitted; an announcement rejected before or
\* at the insert into the gossip store is not relayed.
C9_RelayAfterAccept ==
    [][/\ \A i \in relays(outbox') :
            /\ outbox'[i].msg = ev'.msg
            /\ gossip_fresh(gossip, ev'.msg.ann)
            /\ gossip_key(ev'.msg.ann) \in DOMAIN gossip'
            /\ gossip'[gossip_key(ev'.msg.ann)] = ev'.msg.ann
       /\ (announcement_received /\ rejected) => relays(outbox') = {}]_vars

\* An announcement was taken by the gossip store, which holds it, and was
\* relayed as received.
C9_Witness ==
    /\ ev.op = "received_message"
    /\ ev.msg.type = "Announcement"
    /\ ev.msg.ann.ts = StartTime + MAX_TIME_DELTA
    /\ gossip_key(ev.msg.ann) \in DOMAIN gossip
    /\ gossip[gossip_key(ev.msg.ann)] = ev.msg.ann
    /\ relays(outbox) # {}
    /\ \A i \in relays(outbox) : outbox[i].msg = ev.msg

\* The announcement of the step is not newer than the one the gossip
\* store holds for the same announcer and variant.
replayed ==
    /\ announcement_received
    /\ gossip_key(ev'.msg.ann) \in DOMAIN gossip
    /\ ev'.msg.ann.ts <= gossip[gossip_key(ev'.msg.ann)].ts

\* What the claim of the replayed announcement asks of a step; the
\* missing disconnect is asked of the messages that satisfy ok.
replay_ignored(ok) ==
    replayed =>
        /\ gossip' = gossip
        /\ routing' = routing
        /\ seeds' = seeds
        /\ addresses' = addresses
        /\ no_fetch
        /\ relays(outbox') = {}
        /\ ok => no_disconnect

\* C10 as stated: an announcement with a timestamp not above the one the
\* gossip store holds for the same announcer and variant leaves the
\* routing table, the seed store and the address store unchanged,
\* dispatches and queues no fetch, is not relayed and does not disconnect
\* the relayer.
C10_AsStated == [][replay_ignored(TRUE)]_vars

\* C10: an announcement with a timestamp not above the one the gossip
\* store holds for the same announcer and variant leaves the routing
\* table, the seed store and the address store unchanged, dispatches and
\* queues no fetch and is not relayed; it does not disconnect the relayer
\* unless its signature does not verify.
C10_ReplayIgnored ==
    [][/\ replay_ignored(ev'.msg.ann.valid \/ ev'.op = "rate_limited")
       /\ (replayed /\ from_connected /\ ~ev'.msg.ann.valid
             /\ ev'.op = "received_message") =>
             disconnects(ev'.nid, "Misbehavior")]_vars

\* An older Refs announcement came from the connected announcer after a
\* newer one was stored, for a seeded repository the announcer has refs
\* of that we lack, with a free fetch slot and a peer to relay to; the
\* service did nothing.
C10_Witness ==
    /\ ev.op = "received_message"
    /\ ev.msg.type = "Announcement"
    /\ ev.msg.ann.valid
    /\ ev.msg.ann.kind = "Refs"
    /\ ev.nid = ev.msg.ann.node
    /\ gossip_key(ev.msg.ann) \in DOMAIN gossip
    /\ ev.msg.ann.ts < gossip[gossip_key(ev.msg.ann)].ts
    /\ ev.msg.ann.rid \in DOMAIN policies
    /\ ev.msg.ann.rid \notin DOMAIN fetching
    /\ ev.msg.ann.rid \notin DOMAIN storage
    /\ connected(sessions) = Peers
    /\ sessions["C"].subscribe # None
    /\ outbox = <<>>

\* ------------------------------------------------------------------------
\* After a session error
\* ------------------------------------------------------------------------

\* The last message handled came from a peer and ended in an error that is
\* fatal to its session.
fatal_error ==
    /\ ev.op = "received_message"
    /\ ev.res \in {"Misbehavior", "InvalidTimestamp"}

\* The step handles the next message of the same peer.
next_from_same_peer ==
    /\ ev'.op = "received_message"
    /\ ev'.nid = ev.nid

\* C11: the handling of a message of peer P that ends in a session error
\* leaves Disconnect(P, Session(error)) in the outbox, and a message of P
\* that arrives next, before disconnected(P), is not consumed: it changes
\* no store, no session and no fetch state and produces no outbox action.
C11_NoFurtherMessage ==
    /\ [](fatal_error =>
            \E i \in 1..Len(outbox) :
                outbox[i] = [type |-> "Disconnect", nid |-> ev.nid,
                             reason |-> <<"Session", ev.res>>])
    /\ [][(fatal_error /\ next_from_same_peer) =>
            /\ outbox' = <<>>
            /\ UNCHANGED <<sessions, fetching, queue, inflight, routing,
                           gossip, addresses, seeds, storage, policies,
                           filter>>]_vars

\* ------------------------------------------------------------------------
\* Reconnection of persistent peers
\* ------------------------------------------------------------------------

\* 2^a seconds, no less than 3 seconds and no more than 60 minutes.
backoff(a) ==
    IF 2^a < 3 THEN 3 ELSE IF 2^a > 60 * 60 THEN 60 * 60 ELSE 2^a

\* The step tells the service that the persistent peer nid, which has a
\* session, is disconnected.
persistent_disconnected(nid) ==
    /\ ev'.op = "disconnected"
    /\ ev'.nid = nid
    /\ nid \in DOMAIN sessions
    /\ is_persistent(nid)

\* C12: when a persistent peer is disconnected at time now with a attempts
\* on its session, the session becomes Disconnected with retry_at = now + d
\* and Wakeup(d) is emitted, where d is 2^a seconds clamped into [3s, 60min]:
\* 8s for a = 3, 3s for a = 0, 60min for a large a.
C12_ReconnectBackoff ==
    [][\A nid \in Peers :
        persistent_disconnected(nid) =>
            LET a == sessions[nid].attempts
                d == backoff(a)
            IN  /\ sessions'[nid].state = "Disconnected"
                /\ sessions'[nid].retry_at = clock + d
                /\ \E i \in 1..Len(outbox') :
                      outbox'[i] = [type |-> "Wakeup", delay |-> d]
                /\ d >= MIN_RECONNECTION_DELTA
                /\ d <= MAX_RECONNECTION_DELTA
                /\ a = 3 => d = 8
                /\ a = 0 => d = 3
                /\ a >= 12 => d = 3600]_vars

\* The persistent peer was lost after so many failed dials that the delay
\* reached its ceiling of 60 minutes.
C12_Witness ==
    /\ ev.op = "disconnected"
    /\ is_persistent(ev.nid)
    /\ ev.nid \in DOMAIN sessions
    /\ sessions[ev.nid].state = "Disconnected"
    /\ sessions[ev.nid].attempts >= 12
    /\ sessions[ev.nid].retry_at = clock + 3600
    /\ \E i \in 1..Len(outbox) : outbox[i] = [type |-> "Wakeup", delay |-> 3600]

\* The persistent peer was lost while connected, with no attempt counted.
C12_WitnessFloor ==
    /\ ev.op = "disconnected"
    /\ ev.nid \in DOMAIN sessions
    /\ sessions[ev.nid].state = "Disconnected"
    /\ sessions[ev.nid].attempts = 0
    /\ sessions[ev.nid].retry_at = clock + 3

\* The persistent peer was lost after three attempts.
C12_WitnessThree ==
    /\ ev.op = "disconnected"
    /\ ev.nid \in DOMAIN sessions
    /\ sessions[ev.nid].state = "Disconnected"
    /\ sessions[ev.nid].attempts = 3
    /\ sessions[ev.nid].retry_at = clock + 8

\* ------------------------------------------------------------------------
\* Seeding policy and subscription filter
\* ------------------------------------------------------------------------

\* The positions of the Subscribe messages written in an outbox.
subscribes(ob) ==
    {i \in 1..Len(ob) : ob[i].type = "Write" /\ ob[i].msg.type = "Subscribe"}

\* C13: after Command::Seed(rid, scope) is handled, rid is seeded, the
\* local subscription filter contains rid, and a Subscribe message that
\* carries the current filter is written to every session that is
\* Connected at that moment, once, and to no session in another state.
C13_SeedSubscribes ==
    [][ev'.op = "Seed" =>
        /\ is_seeding([policies |-> policies'], ev'.rid)
        /\ ev'.rid \in filter'
        /\ sessions' = sessions
        /\ {outbox'[i].nid : i \in subscribes(outbox')} = connected(sessions)
        /\ Cardinality(subscribes(outbox')) = Cardinality(connected(sessions))
        /\ \A i \in subscribes(outbox') :
              outbox'[i].msg.filter = filter']_vars

\* A repository was seeded while some sessions were Connected and another
\* was not: the Connected ones, and only they, were told.
C13_Witness ==
    /\ ev.op = "Seed"
    /\ ev.rid \in DOMAIN policies
    /\ ev.rid \in filter
    /\ connected(sessions) # {}
    /\ DOMAIN sessions \ connected(sessions) # {}
    /\ {outbox[i].nid : i \in subscribes(outbox)} = connected(sessions)

\* The filter holds exactly the repositories whose seed policy is Allow.
filter_reflects_policies == filter = DOMAIN policies

\* The step seeds or unseeds a repository, and afterwards both the policy
\* and the filter say what the command asked for.
last_command_decides ==
    /\ ev'.op = "Seed" => ev'.rid \in DOMAIN policies' /\ ev'.rid \in filter'
    /\ ev'.op = "Unseed" =>
          ev'.rid \notin DOMAIN policies' /\ ev'.rid \notin filter'

\* C14: seed(rid) then unseed(rid) leaves rid unseeded and out of the local
\* subscription filter, unseed(rid) then seed(rid) leaves it seeded and in
\* the filter: the last command decides, and after any sequence of them
\* the filter holds exactly the repositories whose seed policy is Allow.
C14_FilterFollowsPolicy ==
    /\ [](started => filter_reflects_policies)
    /\ [][last_command_decides]_vars

\* A repository that was seeded, and fetched for that, has been unseeded:
\* it is neither seeded nor in the filter.
C14_Witness ==
    /\ ev.op = "Unseed"
    /\ \E f \in inflight : f[1] = ev.rid
    /\ ev.rid \notin DOMAIN policies
    /\ ev.rid \notin filter
    /\ filter # {}

\* A repository seeded from the start was unseeded and seeded again.
C14_WitnessSeededAgain ==
    /\ ev.op = "Seed"
    /\ ev.rid = "R1"
    /\ "R2" \notin filter
    /\ filter = {"R1"}
    /\ DOMAIN policies = {"R1"}

\* ------------------------------------------------------------------------
\* Properties of the inventory synchronisation

\* The step runs Command::SyncInventory on the state the last run of
\* sync_inventory left: local storage and the routing entries of the local
\* node are what they were when that run returned.
sync_inventory_again ==
    /\ ev'.op = "SyncInventory"
    /\ ev.sync.kept

C15_WitnessLater ==
    /\ ev.op = "SyncInventory"
    /\ ev.sync.again
    /\ ev.sync.prev < clock
    /\ ev.msg.updated # <<>>

\* ------------------------------------------------------------------------
\* Properties of the routing store

\* What insert answers for an id: by the entry the store held before the
\* call when the id comes first in the list, NotUpdated when the same call
\* has already written it.
insert_result(ids, i, node, time) ==
    IF \E j \in 1..(i - 1) : ids[j] = ids[i] THEN "NotUpdated"
    ELSE IF <<ids[i], node>> \notin DOMAIN routing THEN "SeedAdded"
    ELSE IF time > routing[<<ids[i], node>>] THEN "TimeUpdated"
    ELSE "NotUpdated"

\* The timestamp an insert leaves for a pair: the greater of the one held
\* and the one inserted.
insert_timestamp(k, time) ==
    IF k \in DOMAIN routing /\ routing[k] >= time THEN routing[k] ELSE time

inserted(m, node) ==
    /\ Len(m.results) = Len(m.ids)
    /\ \A i \in 1..Len(m.ids) :
        m.results[i] = <<m.ids[i], insert_result(m.ids, i, node, m.time)>>
    /\ DOMAIN routing' = DOMAIN routing \cup {<<r, node>> : r \in SeqToSet(m.ids)}
    /\ \A k \in DOMAIN routing' :
        routing'[k] = IF k[2] = node /\ k[1] \in SeqToSet(m.ids)
                      THEN insert_timestamp(k, m.time)
                      ELSE routing[k]

\* C16: an insert for a pair the store does not hold answers SeedAdded; for
\* a pair it holds, NotUpdated and the timestamp stays when the inserted
\* time is not greater, TimeUpdated and the inserted time is stored when it
\* is greater.  The store holds one entry per pair, with the greatest of
\* the times inserted.
C16_RoutingInsert ==
    [][ev'.op = "insert" => inserted(ev'.msg, ev'.nid)]_vars

\* An insert renewed one entry and left a younger one alone.
C16_Witness ==
    /\ ev.op = "insert"
    /\ ev.msg.ids = <<"R1", "R2">>
    /\ ev.msg.results = <<<<"R1", "TimeUpdated">>, <<"R2", "NotUpdated">>>>
    /\ routing[<<"R1", ev.nid>>] = ev.msg.time
    /\ routing[<<"R2", ev.nid>>] > ev.msg.time

\* The entries a step deleted from the routing store.
routing_deleted == DOMAIN routing \ DOMAIN routing'

\* The entries a step left in the routing store are as they were.
routing_rest_kept ==
    /\ DOMAIN routing' \subseteq DOMAIN routing
    /\ \A k \in DOMAIN routing' : routing'[k] = routing[k]

\* Store::prune(oldest, limit) deleted only entries older than oldest, at
\* most limit of them, and answered their number.
store_pruned(m) ==
    /\ routing_rest_kept
    /\ \A k \in routing_deleted : routing[k] < m.oldest
    /\ Cardinality(routing_deleted) <= m.limit
    /\ m.count = Cardinality(routing_deleted)

\* The periodic tasks deleted nothing from a table within
\* routing_max_size, and otherwise no more entries than the table has
\* above it, each older than now - routing_max_age.
service_pruned ==
    /\ routing_rest_kept
    /\ Cardinality(DOMAIN routing) <= ConfigRoutingMaxSize => routing' = routing
    /\ Cardinality(DOMAIN routing) > ConfigRoutingMaxSize =>
         Cardinality(routing_deleted) <=
           Cardinality(DOMAIN routing) - ConfigRoutingMaxSize
    /\ \A k \in routing_deleted : routing[k] < clock' - ConfigRoutingMaxAge

\* C19: the store's prune deletes only entries with a timestamp below
\* oldest, at most limit, and returns the number deleted; the service's
\* prune task deletes nothing while the table has at most routing_max_size
\* entries and otherwise at most count - routing_max_size entries, all
\* older than now - routing_max_age.
C19_RoutingPrune ==
    [][/\ ev'.op = "prune" => store_pruned(ev'.msg)
       /\ ev'.op = "wake" => service_pruned]_vars

\* The prune task ran on a table of two entries above routing_max_size,
\* all of them old, and deleted two.
C19_Witness ==
    /\ ev.op = "wake"
    /\ last_prune = clock
    /\ ev.msg.routes = ConfigRoutingMaxSize + 2
    /\ Cardinality(DOMAIN routing) = ConfigRoutingMaxSize
    /\ \A k \in DOMAIN routing : routing[k] < clock - ConfigRoutingMaxAge

\* The prune task ran on a table above routing_max_size whose entries
\* are not older than now - routing_max_age, and deleted none.
C19_WitnessYoung ==
    /\ ev.op = "wake"
    /\ last_prune = clock
    /\ ev.msg.routes = ConfigRoutingMaxSize + 2
    /\ Cardinality(DOMAIN routing) = ConfigRoutingMaxSize + 2
    /\ \E k \in DOMAIN routing : routing[k] = clock - ConfigRoutingMaxAge

\* The store's prune met its limit: it deleted one entry and left an old
\* one behind.
C19_WitnessLimit ==
    /\ ev.op = "prune"
    /\ ev.msg.limit = 1
    /\ ev.msg.count = 1
    /\ \E k \in DOMAIN routing : routing[k] < ev.msg.oldest

\* The prune task ran on a table of old entries within routing_max_size
\* and deleted none.
C19_WitnessSmall ==
    /\ ev.op = "wake"
    /\ last_prune = clock
    /\ ev.msg.routes = ConfigRoutingMaxSize
    /\ Cardinality(DOMAIN routing) = ConfigRoutingMaxSize
    /\ \A k \in DOMAIN routing : routing[k] < clock - ConfigRoutingMaxAge

\* ------------------------------------------------------------------------
\* Properties of the fetch completion

\* The sessions an outbox writes a RefsAnnouncement of the local node for
\* rid to.
refs_announced_to(ob, rid) ==
    {ob[i].nid : i \in {j \in 1..Len(ob) :
        /\ ob[j].type = "Write"
        /\ ob[j].msg.type = "Announcement"
        /\ ob[j].msg.ann.kind = "Refs"
        /\ ob[j].msg.ann.node = Self
        /\ ob[j].msg.ann.rid = rid}}

\* The step is a fetched that resolves the FetchState of its repository.
fetched_resolves == ev'.op = "fetched" /\ ev'.rid \in DOMAIN fetching

\* The fetch resolved was started by the service itself and updated a ref.
fetched_unasked_update ==
    /\ fetching[ev'.rid].subscribers = <<>>
    /\ ev'.res = "Ok"
    /\ ev'.msg.updated

C17_WitnessAsked ==
    /\ ev.op = "fetched"
    /\ ev.res = "Ok"
    /\ ev.msg.updated
    /\ \E c \in Chans : replies[c] # <<>>
    /\ connected(sessions) = {"A", "B"}
    /\ refs_announced_to(outbox, ev.rid) = {}

\* ------------------------------------------------------------------------
\* Properties of the idle task

\* The sessions an outbox writes a Ping to.
pinged(ob) ==
    {ob[i].nid : i \in {j \in 1..Len(ob) :
        ob[j].type = "Write" /\ ob[j].msg.type = "Ping"}}

\* The sessions an outbox disconnects for Session(Timeout).
timed_out(ob) ==
    {ob[i].nid : i \in {j \in 1..Len(ob) :
        ob[j].type = "Disconnect" /\ ob[j].reason = <<"Session", "Timeout">>}}

\* The timer fired and the idle task ran.
idle_ran == ev'.op = "wake" /\ last_idle' = clock'

\* The Connected sessions silent for at least delta when the task runs.
silent_for(delta) ==
    {n \in connected(sessions) : clock' - sessions[n].last_active >= delta}

\* C18: a run of the idle task sends a Ping to every Connected session
\* silent for KEEP_ALIVE_DELTA or more and disconnects, for Session(Timeout),
\* every Connected session silent for STALE_CONNECTION_TIMEOUT or more; a
\* session heard from less than KEEP_ALIVE_DELTA ago gets neither.
C18_IdleTask ==
    [][idle_ran =>
        /\ pinged(outbox') = silent_for(KEEP_ALIVE_DELTA)
        /\ timed_out(outbox') = silent_for(STALE_CONNECTION_TIMEOUT)]_vars

\* A session silent for 70 seconds was pinged and kept, while one that
\* spoke since got nothing.
C18_Witness ==
    /\ ev.op = "wake"
    /\ last_idle = clock
    /\ connected(sessions) = {"A", "B"}
    /\ clock - sessions["A"].last_active = KEEP_ALIVE_DELTA + 10
    /\ clock - sessions["B"].last_active < KEEP_ALIVE_DELTA
    /\ pinged(outbox) = {"A"}
    /\ timed_out(outbox) = {}

\* A session silent for two minutes was disconnected at the idle run that
\* follows.
C18_WitnessStale ==
    /\ ev.op = "wake"
    /\ last_idle = clock
    /\ "A" \in connected(sessions)
    /\ clock - sessions["A"].last_active = STALE_CONNECTION_TIMEOUT
    /\ "A" \in timed_out(outbox)
    /\ "A" \in pinged(outbox)

\* The step is a fetched whose remote is not the `from` of the FetchState
\* held for its repository.
fetched_from_another ==
    /\ ev'.op = "fetched"
    /\ ev'.rid \in DOMAIN fetching
    /\ fetching[ev'.rid].from # ev'.nid

\* C20: a fetched whose remote differs from the `from` of the FetchState
\* held for the repository leaves that FetchState in place, delivers
\* nothing to its subscribers and leaves the in-flight fetches of every
\* session as they were.
C20_MismatchIgnored ==
    [][fetched_from_another =>
        /\ ev'.rid \in DOMAIN fetching'
        /\ fetching'[ev'.rid] = fetching[ev'.rid]
        /\ replies' = replies
        /\ \A n \in DOMAIN sessions :
            n \in DOMAIN sessions' /\ sessions'[n].fetching = sessions[n].fetching]_vars

\* The step is a fetched for a repository without a FetchState.
fetched_unexpected == ev'.op = "fetched" /\ ev'.rid \notin DOMAIN fetching

\* What a fetched without FetchState leaves alone: the fetches, the queue,
\* the sessions, the reply channels and the stores.
unexpected_frame ==
    /\ fetching' = fetching
    /\ queue' = queue
    /\ sessions' = sessions
    /\ replies' = replies
    /\ routing' = routing
    /\ gossip' = gossip
    /\ seeds' = seeds

\* The events and actions of a fetched without FetchState: all of them
\* when told so, otherwise those past the report of the result itself.
unexpected_silent(all) ==
    fetched_unexpected =>
        /\ unexpected_frame
        /\ IF all THEN emitted' = <<>> /\ outbox' = <<>>
           ELSE /\ emitted' =
                     IF ev'.res = "Ok"
                     THEN <<[type |-> "RefsFetched", rid |-> ev'.rid,
                             nid |-> ev'.nid]>>
                     ELSE <<>>
                /\ outbox' =
                     IF ev'.res = "Timeout"
                     THEN <<[type |-> "Disconnect", nid |-> ev'.nid,
                             reason |-> <<"Fetch", "Timeout">>]>>
                     ELSE <<>>

\* C21 as stated: a fetched for a repository without a FetchState has no
\* effect: no RefsFetched event, no disconnect even on a timeout, no
\* announcement, no pop of the queue.
C21_AsStated == [][unexpected_silent(TRUE)]_vars

\* C21: a fetched for a repository without a FetchState announces nothing,
\* does not pop the queue and leaves fetches, sessions, reply channels and
\* stores alone; it still emits RefsFetched for a success and disconnects
\* the remote for a timeout, as these come before the FetchState is looked
\* up.
C21_UnexpectedFetched == [][unexpected_silent(FALSE)]_vars

\* A timeout was reported for a fetch that the disconnection of its peer
\* had already failed, while another fetch waited in the queue.
C21_Witness ==
    /\ ev.op = "fetched"
    /\ ev.res = "Timeout"
    /\ ~ev.msg.known
    /\ ev.nid \notin DOMAIN sessions
    /\ Len(queue) = 2
    /\ outbox # <<>>

\* The step is a Command::Fetch whose try_fetch returned an error.
try_fetch_failed == ev'.op = "Fetch" /\ ev'.res # "Ok"

\* C22: a FetchState exists only for a fetch handed to the transport and
\* not yet resolved; a try_fetch that returns an error (SessionNotFound,
\* SessionNotConnected, SessionCapacityReached, Namespaces) emits no fetch
\* action and leaves the map of ongoing fetches as it was.
C22_FailedFetchLeavesNoState ==
    [][try_fetch_failed =>
        /\ fetch_actions(outbox') = {}
        /\ fetching' = fetching]_vars

\* ------------------------------------------------------------------------
\* Properties of the fetch queue

\* The step ran dequeue_fetch on a queue that held an entry: a fetched that
\* found its FetchState, or a disconnected.
dequeued ==
    /\ queue # <<>>
    /\ \/ ev'.op = "fetched" /\ ev'.msg.known
       \/ ev'.op = "disconnected"

\* The entry cannot run now: its repository is being fetched from another
\* peer, or its session has no free slot.
blocked(hd) ==
    /\ hd[2] \in DOMAIN sessions'
    /\ \/ hd[1] \in DOMAIN fetching' /\ fetching'[hd[1]].from # hd[2]
       \/ /\ hd[1] \notin DOMAIN fetching'
          /\ is_connected(sessions'[hd[2]])
          /\ is_at_capacity(sessions'[hd[2]])

\* The head was popped and handed to the transport.
head_dispatched(hd) ==
    /\ queue' = Tail(queue)
    /\ fetch_actions(outbox') = {hd}
    /\ hd[1] \in DOMAIN fetching' /\ fetching'[hd[1]].from = hd[2]

\* The head was popped and put back behind the entries that followed it.
head_requeued(hd) ==
    /\ queue' = Append(Tail(queue), hd)
    /\ fetch_actions(outbox') = {}
    /\ blocked(hd)

\* The head was popped and given up: nothing blocks it, and it cannot be
\* fetched (its session is gone or not connected) or need not be (its
\* repository is already being fetched from its peer).
head_dropped(hd) ==
    /\ queue' = Tail(queue)
    /\ fetch_actions(outbox') = {}
    /\ ~blocked(hd)

C23_WitnessDispatched ==
    /\ ev.op = "fetched"
    /\ Len(queue) = 1
    /\ fetch_actions(outbox) # {}

\* ------------------------------------------------------------------------
\* Properties of the fetch result

\* The sessions an outbox disconnects, with the reasons given.
disconnected_by(ob) ==
    {<<ob[i].nid, ob[i].reason>> : i \in {j \in 1..Len(ob) :
        ob[j].type = "Disconnect"}}

\* C24: a fetched that reports a timeout disconnects the remote with
\* reason Fetch; one that reports another error, or a success, emits no
\* disconnect.
C24_TimeoutDisconnects ==
    [][ev'.op = "fetched" =>
        disconnected_by(outbox') =
            IF ev'.res = "Timeout"
            THEN {<<ev'.nid, <<"Fetch", "Timeout">>>>}
            ELSE {}]_vars

\* A fetch timed out and its peer, still connected, is disconnected.
C24_Witness ==
    /\ ev.op = "fetched"
    /\ ev.res = "Timeout"
    /\ ev.msg.known
    /\ ev.nid \in connected(sessions)
    /\ disconnected_by(outbox) = {<<ev.nid, <<"Fetch", "Timeout">>>>}

\* A fetch failed for another reason and nobody is disconnected.
C24_WitnessError ==
    /\ ev.op = "fetched"
    /\ ev.res = "Error"
    /\ ev.msg.known
    /\ ev.nid \in connected(sessions)
    /\ disconnected_by(outbox) = {}

\* ------------------------------------------------------------------------
\* Properties of the persistent peers

\* The peers an outbox dials.
connects(ob) ==
    {ob[i].nid : i \in {j \in 1..Len(ob) : ob[j].type = "Connect"}}

\* The sessions of persistent peers that are Disconnected and due for
\* another dial when the timer fires.
due_for_retry ==
    {n \in DOMAIN sessions :
        /\ is_persistent(n)
        /\ sessions[n].state = "Disconnected"
        /\ clock' >= sessions[n].retry_at}

C25_WitnessEarly ==
    /\ ev.op = "wake"
    /\ connects(outbox) = {}
    /\ \E n \in ConfigConnect :
        /\ sessions[n].state = "Disconnected"
        /\ sessions[n].retry_at = clock + 1

\* ------------------------------------------------------------------------
\* C26: when a peer disconnects, the session of a persistent peer is kept
\* and moved to Disconnected, and the session of any other peer is removed;
\* so in every reachable state a Disconnected session is one of a
\* persistent peer.
\* ------------------------------------------------------------------------
session_disconnected ==
    /\ ev'.op = "disconnected"
    /\ ev'.nid \in DOMAIN sessions

session_kept_or_removed ==
    IF is_persistent(ev'.nid)
    THEN /\ ev'.nid \in DOMAIN sessions'
         /\ sessions'[ev'.nid].state = "Disconnected"
         /\ sessions'[ev'.nid].link = sessions[ev'.nid].link
    ELSE ev'.nid \notin DOMAIN sessions'

disconnected_are_persistent ==
    \A n \in DOMAIN sessions' :
        sessions'[n].state = "Disconnected" => is_persistent(n)

C26_WitnessRemoved ==
    /\ ev.op = "disconnected"
    /\ ev.nid = "B"
    /\ "B" \notin DOMAIN sessions
    /\ "A" \in DOMAIN sessions

\* ------------------------------------------------------------------------
\* C27: when a peer disconnects, every fetch running from it is removed and
\* each of its subscribers is sent Failed; the fetches running from other
\* peers and their subscribers are untouched; afterwards no fetch runs from
\* the peer, and one queued fetch is dequeued.
\* ------------------------------------------------------------------------
lost_fetches == {rid \in DOMAIN fetching : fetching[rid].from = ev'.nid}

lost_subscribers ==
    UNION {SeqToSet(fetching[rid].subscribers) : rid \in lost_fetches}

lost_fetches_failed ==
    /\ \A rid \in lost_fetches :
          rid \in DOMAIN fetching' => fetching'[rid] # fetching[rid]
    /\ \A c \in lost_subscribers :
          /\ Len(replies'[c]) = Len(replies[c]) + 1
          /\ replies'[c][Len(replies'[c])].kind = "Failed"
          /\ replies'[c][Len(replies'[c])].remote = ev'.nid

other_fetches_untouched ==
    /\ \A rid \in DOMAIN fetching \ lost_fetches :
          /\ rid \in DOMAIN fetching'
          /\ fetching'[rid] = fetching[rid]
    /\ \A c \in DOMAIN replies \ lost_subscribers : replies'[c] = replies[c]

none_from_lost ==
    \A rid \in DOMAIN fetching' : fetching'[rid].from # ev'.nid

one_dequeued ==
    IF queue = <<>> THEN queue' = <<>>
    ELSE \/ queue' = Tail(queue)
         \/ queue' = Append(Tail(queue), Head(queue))

C27_DisconnectedFailsFetches ==
    [][session_disconnected =>
        /\ lost_fetches_failed
        /\ other_fetches_untouched
        /\ none_from_lost
        /\ one_dequeued]_vars

\* A fetch with a subscriber was lost while another peer's fetch ran.
C27_Witness ==
    /\ ev.op = "disconnected"
    /\ ev.msg.failed # {}
    /\ ev.msg.others # {}
    /\ \E c \in DOMAIN replies :
          /\ replies[c] # <<>>
          /\ replies[c][Len(replies[c])] = FetchFailed(NoRid, ev.nid, "disconnected")

\* A fetch was lost while another fetch was queued.
C27_WitnessQueued ==
    /\ ev.op = "disconnected"
    /\ ev.msg.failed # {}
    /\ ev.msg.queued > 0

\* ------------------------------------------------------------------------
\* C28: on connected, the new session is written our node announcement and
\* then our inventory announcement whatever the link, and after them a
\* Subscribe only when the link is outbound; an inbound connection is sent
\* no Subscribe among the initial messages.
\* ------------------------------------------------------------------------
\* The step connected a session: a dialled one, or a new inbound one.
session_connected ==
    /\ ev'.op = "connected"
    /\ IF ev'.rid = "Outbound"
       THEN ev'.nid \in DOMAIN sessions
       ELSE ev'.nid \notin DOMAIN sessions

\* The messages written to the peer of the step, in order.
initial_writes ==
    SelectSeq(outbox', LAMBDA a : a.type = "Write" /\ a.nid = ev'.nid)

is_announcement(a, kind) ==
    /\ a.msg.type = "Announcement"
    /\ a.msg.ann.kind = kind
    /\ a.msg.ann.node = Self

announcements_first ==
    /\ Len(initial_writes) >= 2
    /\ is_announcement(initial_writes[1], "Node")
    /\ is_announcement(initial_writes[2], "Inventory")
    /\ SeqToSet(initial_writes[2].msg.ann.inventory) = DOMAIN storage

subscribe_follows ==
    /\ Len(initial_writes) = 3
    /\ initial_writes[3].msg.type = "Subscribe"

C28_SubscribeOnlyOutbound ==
    [][session_connected =>
        /\ announcements_first
        /\ IF ev'.rid = "Outbound"
           THEN subscribe_follows
           ELSE Len(initial_writes) = 2]_vars

\* ------------------------------------------------------------------------
\* C29: the initial Subscribe has until = the maximum timestamp and
\* since = min(last gossip timestamp - MAX_TIME_DELTA,
\* now - INITIAL_SUBSCRIBE_BACKLOG_DELTA), for every last gossip timestamp
\* and every clock, a last gossip timestamp smaller than MAX_TIME_DELTA
\* included: the subtraction does not underflow.
\* ------------------------------------------------------------------------
held_last(held) == CHOOSE m \in held : \A t \in held : t <= m

\* The smaller of the two starts; the backlog alone when nothing is held.
since_min(held, now) ==
    LET backlog == now - INITIAL_SUBSCRIBE_BACKLOG_DELTA
        recent == held_last(held) - MAX_TIME_DELTA
    IN  IF held = {} THEN backlog
        ELSE IF recent < backlog THEN recent ELSE backlog

\* The Subscribe among the initial messages of the step.
initial_subscribe == ev'.msg.out.msgs[3]

C29_SubscribeSince ==
    [][ev'.op = "initial" =>
        /\ ~ev'.msg.out.panic
        /\ Len(ev'.msg.out.msgs) = 3
        /\ initial_subscribe.type = "Subscribe"
        /\ initial_subscribe.until = TIMESTAMP_MAX
        /\ initial_subscribe.since = since_min(ev'.msg.held, ev'.msg.now)]_vars

\* What initial does instead, for a last gossip timestamp of at least
\* MAX_TIME_DELTA: an hour before it, whatever the clock.
since_recent ==
    [][(/\ ev'.op = "initial"
        /\ ev'.msg.held # {}
        /\ held_last(ev'.msg.held) >= MAX_TIME_DELTA) =>
        /\ ~ev'.msg.out.panic
        /\ initial_subscribe.until = TIMESTAMP_MAX
        /\ initial_subscribe.since = held_last(ev'.msg.held) - MAX_TIME_DELTA]_vars

\* And for a smaller one: a panic under overflow checks, a start near the
\* maximum timestamp without them.
since_underflow ==
    [][(/\ ev'.op = "initial"
        /\ ev'.msg.held # {}
        /\ held_last(ev'.msg.held) < MAX_TIME_DELTA) =>
        IF ev'.res = "checked" THEN ev'.msg.out.panic
        ELSE /\ ~ev'.msg.out.panic
             /\ initial_subscribe.since =
                  TimestampModulus - (MAX_TIME_DELTA - held_last(ev'.msg.held))]_vars

\* ------------------------------------------------------------------------
\* C30: an inbound connection of a peer that already has a session, in
\* whatever state, leaves that session as it was, its state, link,
\* subscription and fetches in flight included, and writes no initial
\* messages.
\* ------------------------------------------------------------------------
connected_again ==
    /\ ev'.op = "connected"
    /\ ev'.rid = "Inbound"
    /\ ev'.nid \in DOMAIN sessions

C30_InboundOnExistingSession ==
    [][connected_again =>
        /\ sessions' = sessions
        /\ fetching' = fetching
        /\ queue' = queue
        /\ outbox' = <<>>]_vars

\* A Connected session with a fetch in flight saw its peer connect again.
C30_Witness ==
    /\ ev.op = "connected"
    /\ ev.rid = "Inbound"
    /\ outbox = <<>>
    /\ ev.nid \in DOMAIN sessions
    /\ sessions[ev.nid].state = "Connected"
    /\ sessions[ev.nid].fetching # {}
    /\ sessions[ev.nid].subscribe # None

\* The same for a session we dialled and for one waiting to be retried.
C30_WitnessDialled ==
    /\ ev.op = "connected"
    /\ ev.rid = "Inbound"
    /\ outbox = <<>>
    /\ ev.nid \in DOMAIN sessions
    /\ sessions[ev.nid].link = "Outbound"
    /\ sessions[ev.nid].state = "Attempted"

C30_WitnessDisconnected ==
    /\ ev.op = "connected"
    /\ ev.rid = "Inbound"
    /\ outbox = <<>>
    /\ ev.nid \in DOMAIN sessions
    /\ sessions[ev.nid].state = "Disconnected"

\* ------------------------------------------------------------------------
\* C31: with relaying enabled, an inventory announcement that passes the
\* checks of signature, timestamp and known announcer is relayed if and
\* only if it changed the routing table or was fresh for the gossip store;
\* so a fresh one that changes no routing entry is relayed too.
\* ------------------------------------------------------------------------
\* The step received an inventory announcement that passed the checks,
\* with relaying enabled and a session to relay it to.
inventory_admitted ==
    /\ announcement_received
    /\ ev'.op = "received_message"
    /\ from_connected
    /\ ConfigRelay
    /\ ev'.msg.ann.kind = "Inventory"
    /\ ev'.msg.ann.valid
    /\ ev'.msg.ann.node # Self
    /\ ~too_far_ahead(ev'.msg.ann.ts, clock)
    /\ ev'.msg.ann.node \in DOMAIN addresses
    /\ relay_to(St, ev'.nid, ev'.msg.ann.node) # {}

inventory_relay(fresh_suffices) ==
    inventory_admitted =>
        (relays(outbox') # {} <=>
            IF fresh_suffices
            THEN routing' # routing \/ gossip_fresh(gossip, ev'.msg.ann)
            ELSE routing' # routing /\ gossip_fresh(gossip, ev'.msg.ann))

C31_AsStated == [][inventory_relay(TRUE)]_vars

\* C31, amended: the announcement is relayed if and only if it was fresh
\* for the gossip store and changed the routing table; a fresh one that
\* changes no routing entry is not relayed.
C31_InventoryRelay == [][inventory_relay(FALSE)]_vars

\* A fresh inventory announcement changed the routing table and went on.
C31_Witness ==
    /\ ev.op = "received_message"
    /\ ev.msg.type = "Announcement"
    /\ ev.msg.ann.kind = "Inventory"
    /\ gossip_key(ev.msg.ann) \in DOMAIN gossip
    /\ gossip[gossip_key(ev.msg.ann)] = ev.msg.ann
    /\ \E rid \in RIDs : <<rid, ev.msg.ann.node>> \in DOMAIN routing
    /\ relays(outbox) # {}

\* A fresh inventory announcement that names nothing, of an announcer
\* without routes, stayed here though a peer was there to relay it to.
C31_WitnessUnchanged ==
    /\ ev.op = "received_message"
    /\ ev.msg.type = "Announcement"
    /\ ev.msg.ann.kind = "Inventory"
    /\ ev.msg.ann.valid
    /\ ev.msg.ann.inventory = <<>>
    /\ gossip_key(ev.msg.ann) \in DOMAIN gossip
    /\ gossip[gossip_key(ev.msg.ann)] = ev.msg.ann
    /\ emitted # <<>>
    /\ relay_to(St, ev.nid, ev.msg.ann.node) # {}
    /\ relays(outbox) = {}

\* ------------------------------------------------------------------------
\* C32: an accepted refs announcement for a seeded repository with fresh
\* refs starts a fetch of the repository from the announcer, never from
\* another relayer, with refs_at the fresh refs, if the announcer has a
\* Connected session; if it has none, nothing is dispatched and nothing
\* is queued.
\* ------------------------------------------------------------------------
refs_of_step == refs_status_of(St, ev'.msg.ann, policies[ev'.msg.ann.rid])

\* The step accepted a refs announcement for a seeded repository that
\* names refs we lack.
refs_accepted ==
    /\ ev'.op = "received_message"
    /\ ev'.msg.type = "Announcement"
    /\ ev'.msg.ann.kind = "Refs"
    /\ from_connected
    /\ ~rejected
    /\ is_seeding(St, ev'.msg.ann.rid)
    /\ refs_of_step # {}

\* The fetch actions of an outbox.
fetch_writes(ob) == SelectSeq(ob, LAMBDA a : a.type = "Fetch")

announcer_connected ==
    /\ ev'.msg.ann.node \in DOMAIN sessions
    /\ is_connected(sessions[ev'.msg.ann.node])

refs_dispatched ==
    /\ fetch_writes(outbox') =
         <<[type |-> "Fetch", rid |-> ev'.msg.ann.rid,
            remote |-> ev'.msg.ann.node, refs_at |-> refs_of_step]>>
    /\ queue' = queue

refs_queued ==
    /\ fetch_writes(outbox') = <<>>
    /\ queue' = Append(queue, <<ev'.msg.ann.rid, ev'.msg.ann.node>>)
    /\ fetching' = fetching

refs_dropped ==
    /\ fetch_writes(outbox') = <<>>
    /\ queue' = queue
    /\ fetching' = fetching

C32_AsStated ==
    [][refs_accepted =>
        IF announcer_connected THEN refs_dispatched ELSE refs_dropped]_vars

\* The repository of the announcement is being fetched from another peer.
fetching_elsewhere ==
    /\ ev'.msg.ann.rid \in DOMAIN fetching
    /\ fetching[ev'.msg.ann.rid].from # ev'.msg.ann.node

\* C32, amended: the fetch is dispatched from the announcer, with refs_at
\* the fresh refs, if the announcer has a Connected session with a free
\* fetch slot and the repository is not being fetched.  If the announcer
\* has a session, in whatever state, and the repository is being fetched
\* from another peer, or if the session is Connected, at capacity and the
\* repository is not being fetched, the fetch is queued without its refs.
\* Otherwise nothing is dispatched and nothing is queued.
C32_RefsFetch ==
    [][refs_accepted =>
        IF ev'.msg.ann.node \notin DOMAIN sessions THEN refs_dropped
        ELSE IF ev'.msg.ann.rid \in DOMAIN fetching
        THEN IF fetching_elsewhere THEN refs_queued ELSE refs_dropped
        ELSE IF ~announcer_connected THEN refs_dropped
        ELSE IF is_at_capacity(sessions[ev'.msg.ann.node]) THEN refs_queued
        ELSE refs_dispatched]_vars

\* An announcement relayed by another peer started a fetch from its
\* announcer.
C32_Witness ==
    /\ ev.op = "received_message"
    /\ ev.msg.type = "Announcement"
    /\ ev.msg.ann.kind = "Refs"
    /\ ev.nid # ev.msg.ann.node
    /\ fetch_writes(outbox) # <<>>
    /\ fetch_writes(outbox)[1].remote = ev.msg.ann.node
    /\ fetch_writes(outbox)[1].refs_at = ev.msg.ann.refs

\* A fetch was queued for an announcer whose session is not Connected.
C32_WitnessQueued ==
    /\ ev.op = "received_message"
    /\ ev.msg.type = "Announcement"
    /\ ev.msg.ann.kind = "Refs"
    /\ ev.msg.ann.node \in DOMAIN sessions
    /\ ~is_connected(sessions[ev.msg.ann.node])
    /\ queue # <<>>
    /\ queue[Len(queue)] = <<ev.msg.ann.rid, ev.msg.ann.node>>
    /\ fetch_writes(outbox) = <<>>

\* A fetch was queued for a Connected announcer at capacity.
C32_WitnessCapacity ==
    /\ ev.op = "received_message"
    /\ ev.msg.type = "Announcement"
    /\ ev.msg.ann.kind = "Refs"
    /\ ev.msg.ann.node \in DOMAIN sessions
    /\ is_connected(sessions[ev.msg.ann.node])
    /\ ev.msg.ann.rid \notin DOMAIN fetching
    /\ queue # <<>>
    /\ queue[Len(queue)] = <<ev.msg.ann.rid, ev.msg.ann.node>>
    /\ fetch_writes(outbox) = <<>>

\* ------------------------------------------------------------------------
\* C33: every change of the local filter made by a command, by Seed as
\* by Unseed, is followed within the handler of the command by the
\* broadcast of a new Subscribe to all Connected sessions.
\* ------------------------------------------------------------------------
\* The sessions the step wrote a Subscribe of the new filter to.
told_filter ==
    {outbox'[i].nid :
        i \in {j \in 1..Len(outbox') :
                 /\ outbox'[j].type = "Write"
                 /\ outbox'[j].msg = SubscribeMsg(filter', clock, TIMESTAMP_MAX)}}

filter_broadcast == told_filter = connected(sessions)

C33_AsStated ==
    [][(ev'.op \in {"Seed", "Unseed"} /\ filter' # filter) =>
        filter_broadcast]_vars

\* C33, amended: Command::Seed, whether or not it changes the filter, is
\* followed within its handler by the broadcast of a Subscribe with the
\* filter it leaves to all Connected sessions and to no other; Command::
\* Unseed rebuilds the filter from the policies and writes nothing.
C33_SeedBroadcasts ==
    [][/\ ev'.op = "Seed" =>
            /\ filter' = filter \cup {ev'.rid}
            /\ filter_broadcast
            /\ Len(outbox') = Cardinality(connected(sessions))
       /\ ev'.op = "Unseed" =>
            /\ filter' = DOMAIN policies'
            /\ outbox' = <<>>]_vars

\* A Seed that changed the filter told two Connected sessions.
C33_Witness ==
    /\ ev.op = "Seed"
    /\ Cardinality(connected(sessions)) = 2
    /\ Len(outbox) = 2
    /\ \A i \in 1..2 : ev.rid \in outbox[i].msg.filter
    /\ "C" \in DOMAIN sessions /\ ~is_connected(sessions["C"])

\* An Unseed changed the filter and told no one of two Connected sessions.
C33_WitnessUnseed ==
    /\ ev.op = "Unseed"
    /\ ev.rid \notin filter
    /\ filter # {}
    /\ Cardinality(connected(sessions)) = 2
    /\ outbox = <<>>

\* ------------------------------------------------------------------------
\* C34: sync_routing never lets an older write override a newer entry: a
\* routing entry of the announcer with a timestamp newer than that of the
\* inventory announcement keeps its timestamp and is not removed, whether
\* or not the inventory names its repository; so also for an entry that a
\* newer refs announcement created.
\* ------------------------------------------------------------------------
inventory_received ==
    /\ ev'.op = "received_message"
    /\ ev'.msg.type = "Announcement"
    /\ ev'.msg.ann.kind = "Inventory"

\* The entries of the announcer that are newer than the announcement.
newer_routes ==
    {k \in DOMAIN routing : k[2] = ev'.msg.ann.node /\ routing[k] > ev'.msg.ann.ts}

C34_NewerEntryWins ==
    [][inventory_received =>
        \A k \in newer_routes :
            /\ k \in DOMAIN routing'
            /\ routing'[k] = routing[k]]_vars

\* What holds of the entries the inventory names: a newer entry named by
\* an older inventory announcement stays as it is.
newer_named_kept ==
    [][inventory_received =>
        \A k \in newer_routes :
            k[1] \in SeqToSet(ev'.msg.ann.inventory) =>
                /\ k \in DOMAIN routing'
                /\ routing'[k] = routing[k]]_vars

\* And of those it leaves out: an accepted inventory announcement removes
\* them, newer or not.
unnamed_removed ==
    [][(inventory_received /\ from_connected /\ ~rejected) =>
        \A k \in DOMAIN routing :
            (k[2] = ev'.msg.ann.node
             /\ k[1] \notin SeqToSet(ev'.msg.ann.inventory)) =>
                k \notin DOMAIN routing']_vars

\* ------------------------------------------------------------------------
\* C40: every SeedDiscovered event names a routing entry that was just
\* added: the entry is in the routing table when the event is emitted and
\* was not before the announcement, for inventory announcements and for
\* refs announcements, those relayed by another peer than the announcer
\* included.
\* ------------------------------------------------------------------------
seeds_discovered ==
    {<<emitted'[i].rid, emitted'[i].nid>> :
        i \in {j \in 1..Len(emitted') : emitted'[j].type = "SeedDiscovered"}}

C40_SeedDiscoveredIsNewRoute ==
    [][\A k \in seeds_discovered :
          /\ k \in DOMAIN routing'
          /\ k \notin DOMAIN routing]_vars

\* What holds of the event of a refs announcement: the entry added is the
\* announcer's, the event names the relayer.
refs_discovery_names_relayer ==
    [][(/\ ev'.op = "received_message"
        /\ ev'.msg.type = "Announcement"
        /\ ev'.msg.ann.kind = "Refs") =>
        \A k \in seeds_discovered :
            /\ k = <<ev'.msg.ann.rid, ev'.nid>>
            /\ <<ev'.msg.ann.rid, ev'.msg.ann.node>> \in DOMAIN routing'
            /\ <<ev'.msg.ann.rid, ev'.msg.ann.node>> \notin DOMAIN routing]_vars

\* ------------------------------------------------------------------------
\* C35: a message that the rate limiter rejects is dropped silently: no
\* handler gets it, no store and no fetch changes, the outbox stays empty
\* and the peer is not disconnected.  accepted refuses an address only if
\* it is untrusted and the limiter rejects it, and accepts a trusted one
\* without asking the limiter.
\* ------------------------------------------------------------------------
\* The sessions but for the time of the last activity of the sender.
sessions_but_activity(ss) ==
    IF ev'.nid \in DOMAIN ss
    THEN [ss EXCEPT ![ev'.nid].last_active = 0]
    ELSE ss

\* The handler of the step changed nothing but the time of the last
\* activity of the sender's session, and asked for nothing.
message_dropped ==
    /\ outbox' = <<>>
    /\ emitted' = <<>>
    /\ sessions_but_activity(sessions') = sessions_but_activity(sessions)
    /\ UNCHANGED <<fetching, queue, routing, gossip, addresses, seeds,
                   policies, filter, storage, replies, inflight>>

C35_RateLimitedDropped ==
    [][/\ ev'.op = "rate_limited" => (message_dropped /\ ev'.res = "Ok")
       /\ ev'.op = "accepted" =>
            /\ (ev'.res = "Refused" <=>
                    (~ev'.msg.trusted /\ ev'.msg.limited))
            /\ (ev'.msg.trusted => ~ev'.msg.consulted)
            /\ UNCHANGED <<sessions, outbox, emitted>>]_vars

\* A forged announcement of a Connected peer was rate limited while
\* another peer was there to disconnect or to relay to.
C35_Witness ==
    /\ ev.op = "rate_limited"
    /\ ev.msg.type = "Announcement"
    /\ ~ev.msg.ann.valid
    /\ ev.nid \in DOMAIN sessions
    /\ is_connected(sessions[ev.nid])
    /\ sessions[ev.nid].last_active = clock
    /\ Cardinality(connected(sessions)) = 2
    /\ outbox = <<>>

\* A trusted address that the limiter would reject was accepted.
C35_WitnessTrusted ==
    /\ ev.op = "accepted"
    /\ ev.msg.trusted
    /\ ev.msg.limited
    /\ ev.res = "Ok"

\* ------------------------------------------------------------------------
\* C36: a message of whatever kind received for a session that is not
\* Connected, or for a node without a session, is ignored and is not
\* fatal: no store is written, no fetch starts, nothing is relayed or
\* answered and nobody is disconnected, not even for an announcement with
\* an invalid signature.
\* ------------------------------------------------------------------------
C36_UnconnectedIgnored ==
    [][(ev'.op = "received_message" /\ ~from_connected) =>
        /\ message_dropped
        /\ ev'.res = "Ok"]_vars

\* A forged announcement reached a session that is being dialled.
C36_Witness ==
    /\ ev.op = "received_message"
    /\ ev.msg.type = "Announcement"
    /\ ~ev.msg.ann.valid
    /\ ev.nid \in DOMAIN sessions
    /\ sessions[ev.nid].state = "Attempted"
    /\ outbox = <<>>

\* A Subscribe reached a session that waits to be dialled again.
C36_WitnessDisconnected ==
    /\ ev.op = "received_message"
    /\ ev.msg.type = "Subscribe"
    /\ ev.nid \in DOMAIN sessions
    /\ sessions[ev.nid].state = "Disconnected"
    /\ sessions[ev.nid].subscribe = None

\* A Ping came from a node without a session.
C36_WitnessNoSession ==
    /\ ev.op = "received_message"
    /\ ev.msg.type = "Ping"
    /\ ev.nid \notin DOMAIN sessions
    /\ outbox = <<>>

\* ------------------------------------------------------------------------
\* C37: the map of ongoing fetches and the in-flight sets of the sessions
\* agree in every reachable state: a FetchState for rid with from = n
\* exists if and only if the session of n exists, is Connected and has rid
\* in flight.  So a fetched that finds a FetchState finds one whose from is
\* its remote, and no session keeps a slot for a fetch without FetchState.
\* ------------------------------------------------------------------------
\* The fetches by the map of FetchStates, as <<rid, from>> pairs.
fetches_by_state(f) == {<<rid, f[rid].from>> : rid \in DOMAIN f}

\* The fetches by the in-flight sets of the Connected sessions.
fetches_by_session(ss) ==
    UNION {{<<rid, n>> : rid \in ss[n].fetching} : n \in connected(ss)}

C37_FetchingAgrees ==
    [][/\ fetches_by_state(fetching') = fetches_by_session(sessions')
       /\ (ev'.op = "fetched" /\ ev'.msg.known) =>
              fetching[ev'.rid].from = ev'.nid]_vars

\* The parts of C37, none of which holds on its own: a session keeps no
\* slot without a FetchState ...
no_slot_without_state ==
    [][fetches_by_session(sessions') \subseteq fetches_by_state(fetching')]_vars

\* ... every FetchState has its slot ...
no_state_without_slot ==
    [][fetches_by_state(fetching') \subseteq fetches_by_session(sessions')]_vars

\* ... and a fetched finds the FetchState of its remote.
fetched_from_its_remote ==
    [][(ev'.op = "fetched" /\ ev'.msg.known) =>
          fetching[ev'.rid].from = ev'.nid]_vars

\* ------------------------------------------------------------------------
\* C38: no queued fetch is stranded: in every reachable state with a
\* non-empty fetch queue at least one FetchState exists, a fetch whose
\* completion or whose peer's disconnection will pop the queue.
\* ------------------------------------------------------------------------
C38_QueuedHasFetch == queue # <<>> => DOMAIN fetching # {}

\* No state is one where fetches are queued while no fetch is ongoing and
\* no worker is left to report.
never_stranded ==
    ~(/\ queue # <<>>
      /\ DOMAIN fetching = {}
      /\ inflight = {}
      /\ \A i \in 1..Len(queue) : queue[i][2] \in connected(sessions))

\* ------------------------------------------------------------------------
\* C39: the FetchResult delivered on the reply channel of
\* Command::Fetch(rid, nid, _) stems from nid: it is a failure to start the
\* fetch from nid, the loss of nid, or the outcome of a fetch of rid from
\* nid, never the outcome of a fetch of rid from another peer.
\* ------------------------------------------------------------------------

\* The results that a step delivers on channel c.
delivered(c) ==
    {replies'[c][i] : i \in (Len(replies[c]) + 1)..Len(replies'[c])}

\* The results delivered on the channel of Command::Fetch(rid, nid, _) by
\* the command itself and by the handler that runs next stem from nid.
C39_ReplyOfRequestedPeer ==
    [][/\ ev'.op = "Fetch" =>
            \A r \in delivered(ev'.chan) : r.remote = ev'.nid
       /\ ev.op = "Fetch" /\ ev'.op # "Fetch" =>
            \A r \in delivered(ev.chan) : r.remote = ev.nid]_vars

\* What holds of the command itself: a fetch that could not start fails
\* on the channel with the requested peer.
reply_of_command ==
    [][ev'.op = "Fetch" =>
            \A r \in delivered(ev'.chan) :
                r.kind = "Failed" /\ r.remote = ev'.nid]_vars

\* The part that names the outcome of a fetch: no successful result of a
\* fetch from another peer is delivered on the channel.
never_success_of_other ==
    [][ev.op = "Fetch" /\ ev'.op = "fetched" =>
            \A r \in delivered(ev.chan) :
                r.kind = "Success" => r.remote = ev.nid]_vars

====
